---- MODULE Spec2Model ----
(***************************************************************************)
(* A model of the aifand process engine: the System priority queue         *)
(* (base/system.py), the virtual runner (base/runner.py), the serial       *)
(* pipeline and its timing loop (base/process.py, base/pipeline.py) and    *)
(* the permission check of State (base/state.py, base/permissions.py).     *)
(*                                                                         *)
(* Time is counted in abstract units (one unit stands for a fixed number   *)
(* of nanoseconds); all arithmetic of the code on times is integer         *)
(* arithmetic and is kept as it is.                                        *)
(***************************************************************************)
EXTENDS Integers, Sequences, FiniteSets, TLC

\* ------------------------------------------------------------------ bounds
\* Largest interval_ns a process is constructed with or is set to.
MaxInterval == 2
\* Largest reading of the free-running clock in the System specification.
MaxTime == 3
\* Largest number of ticks of the System itself in the System specification.
MaxTicks == 3
\* Largest duration (end_time) asked of FastRunner.run_for_duration.
MaxDuration == 4
\* Largest number of cycles of the timing loop of a Pipeline.
MaxCycles == 2
\* Largest number of frames on the call stack of a call of State.with_device(s).
MaxStack == 2
\* Largest timestamp that the clock of a StatefulProcess reads.
MaxStamp == 3
\* Largest number of entries stored in a Buffer since it was created.
MaxStored == 4
\* Largest buffer_size_limit of a StatefulProcess.
MaxLimit == 2
\* Largest max_age_ns of a StatefulProcess.
MaxAge == 2
\* Largest number of processes constructed.
MaxBuilt == 2

\* The System itself is process 0; the child processes are 1, 2, 3.
SystemId == 0
Children == {1, 2, 3}
\* The children that the free-running System specification appends and removes.
Appendable == {1, 2}
\* The Pipeline that runs its own timing loop is process 4.
PipelineId == 4
Procs == {SystemId, PipelineId} \cup Children
Intervals == 1..MaxInterval

VARIABLES
    \* --- process timing state (Process fields), one entry per process
    interval_ns,        \* Process.interval_ns
    start_time,         \* Process.start_time
    execution_count,    \* Process.execution_count
    \* --- System
    process_heap,       \* System.process_heap: heapq array of <<next_time, process>>
    now,                \* what Process.get_time() returns (runner clock or monotonic clock)
    \* --- history variables (not program state)
    members,            \* children appended and not removed
    appendOrder,        \* the members in the order of their append
    tick,               \* record of the most recent System tick
    handed,             \* the bundle the System was ticked with and what it gave each child
    \* --- FastRunner
    run_pc,             \* "idle", "running", "done" (loop left), "raised" (exception left run_for_duration)
    end_time,           \* end_time of run_for_duration: int(duration_seconds * 1e9)
    max_duration_ns,    \* FastRunner.max_duration_ns
    \* --- history variables of a run
    cycles,             \* parity of the number of evaluations of the loop condition
    tickLog,            \* per child, the virtual times at which it was dispatched (kept while allOk)
    allOk,              \* no dispatched child has failed in this run
    prev,               \* the run_for_duration before this one on the same runner
    \* --- Pipeline (its timing fields are those of process PipelineId)
    pipeline,           \* the Pipeline and its tree of children (Process.children)
    states,             \* Pipeline.states, the persistent bundle
    stop_requested,     \* Process.stop_requested
    pipe_pc,            \* "idle", "loop" (inside start()), "stopped" (start() returned)
    \* --- history variables of the Pipeline
    okTicks,            \* ticks of the timing loop whose execute() returned
    last,               \* record of the most recent call of execute()
    \* --- State
    devices,            \* State.devices of the State that the calls are made on
    call,               \* history: record of the most recent with_device / with_devices call
    query,              \* history: record of the most recent can_process_modify_device call
    \* --- Runner (base class) and the worker threads of a StandardRunner
    thread,             \* Runner._thread: a worker, or NoThread for None
    runner_stop_requested, \* Runner._stop_requested
    workers,            \* per worker thread, where it is in _execution_loop
    caller_pc,          \* the thread that calls start() and stop(): "idle" or "joining"
    stop_called,        \* history: stop() has been called since the run was started
    \* --- StatefulProcess and its Buffer
    buffer,             \* StatefulProcess.buffer: None, or a Buffer with its _entries
    buffer_size_limit,  \* StatefulProcess.buffer_size_limit
    auto_prune_enabled, \* StatefulProcess.auto_prune_enabled
    max_age_ns,         \* StatefulProcess.max_age_ns
    bufLog,             \* history: record of the calls made on the buffer
    \* --- TimeSource
    time_source,        \* TimeSource._thread_locals.runner, per thread
    initFrom,           \* history: the clock that the last initialization of the tree read
    \* --- FixedSpeedController
    actuator_settings,  \* FixedSpeedController.actuator_settings
    fixed,              \* history: record of the most recent execute() of the controller
    \* --- construction of processes
    constructed,        \* the processes constructed so far, in order
    attempt,            \* history: record of the most recent call of a constructor
    \* --- assembly of a Pipeline
    pipe_children,      \* Pipeline.children as set_environment / add_controller build it
    assembled           \* history: the calls made, in order

sysVars == <<interval_ns, start_time, execution_count, process_heap, now,
             members, appendOrder, tick, handed>>
runVars == <<run_pc, end_time, max_duration_ns, cycles, tickLog, allOk, prev>>

pipeVars == <<pipeline, states, stop_requested, pipe_pc, okTicks, last>>

stateVars == <<devices, call, query>>

wallVars == <<thread, runner_stop_requested, workers, caller_pc, stop_called>>

bufVars == <<buffer, buffer_size_limit, auto_prune_enabled, max_age_ns, bufLog>>

clkVars == <<time_source, initFrom>>

fixVars == <<actuator_settings, fixed>>

conVars == <<constructed, attempt>>

asmVars == <<pipe_children, assembled>>

vars == <<sysVars, runVars, pipeVars, stateVars, wallVars, bufVars, clkVars,
          fixVars, conVars, asmVars>>

\* What an operation on the System alone leaves unchanged.
sysFrame == <<runVars, pipeVars, stateVars, wallVars, bufVars, clkVars, fixVars, conVars, asmVars>>
\* What a step of the runner leaves unchanged besides the fields it names.
runFrame == <<pipeVars, stateVars, wallVars, bufVars, fixVars, conVars, asmVars>>

\* ------------------------------------------------------------- helpers
Range(s) == {s[i] : i \in DOMAIN s}

RemoveAt(s, i) == SubSeq(s, 1, i - 1) \o SubSeq(s, i + 1, Len(s))

SeqWithout(s, x) == SelectSeq(s, LAMBDA y : y # x)

\* Position of the first x in sequence s (0 when absent).
IndexOf(s, x) == IF \E i \in DOMAIN s : s[i] = x
                 THEN CHOOSE i \in DOMAIN s : s[i] = x /\ \A j \in 1..(i - 1) : s[j] # x
                 ELSE 0

Min(a, b) == IF a <= b THEN a ELSE b

\* F(x), with x evaluated once and F applied to its value.
With(x, F(_)) == CHOOSE r \in {F(v) : v \in {x}} : TRUE

\* ceil(a / b) for a >= 0, b > 0
CeilDiv(a, b) == (a + b - 1) \div b

\* --------------------------------------------------------- Process timing
\* Process.get_next_execution_time(): start_time + execution_count * interval_ns.
NextExecutionTime(st, cnt, iv, p) == st[p] + cnt[p] * iv[p]

NextTime(p) == NextExecutionTime(start_time, execution_count, interval_ns, p)

\* Process.execute(), the template around _execute(): a successful return
\* increments execution_count, an exception leaves it and propagates.
ProcessExecuteCount(cnt, p, outcome) ==
    IF outcome = "ok" THEN [cnt EXCEPT ![p] = @ + 1] ELSE cnt

\* Comparison of two Process objects, reached by the tuple comparison of
\* heapq when two keys are equal: a fixed total order on processes.
ProcessLess(p, q) == p < q

\* ------------------------------------------------------------------ heapq
\* Python compares the tuples (next_time, process) lexicographically.
TupleLess(a, b) ==
    \/ a[1] < b[1]
    \/ a[1] = b[1] /\ a[2] # b[2] /\ ProcessLess(a[2], b[2])

\* heapq._siftdown(heap, startpos, pos), positions counted from 0.
RECURSIVE SiftDownItem(_, _, _, _)
SiftDownItem(heap, startpos, pos, newitem) ==
    IF pos > startpos
    THEN LET parentpos == (pos - 1) \div 2
             parent == heap[parentpos + 1]
         IN  IF TupleLess(newitem, parent)
             THEN SiftDownItem([heap EXCEPT ![pos + 1] = parent], startpos, parentpos, newitem)
             ELSE [heap EXCEPT ![pos + 1] = newitem]
    ELSE [heap EXCEPT ![pos + 1] = newitem]

SiftDown(heap, startpos, pos) == SiftDownItem(heap, startpos, pos, heap[pos + 1])

\* heapq._siftup(heap, pos): bubble the smaller child up to a leaf, then sift down.
RECURSIVE SiftUpItem(_, _, _, _)
SiftUpItem(heap, startpos, pos, newitem) ==
    LET endpos == Len(heap)
        childpos == 2 * pos + 1
    IN  IF childpos < endpos
        THEN LET rightpos == childpos + 1
                 pick == IF rightpos < endpos
                            /\ ~TupleLess(heap[childpos + 1], heap[rightpos + 1])
                         THEN rightpos ELSE childpos
             IN  SiftUpItem([heap EXCEPT ![pos + 1] = heap[pick + 1]], startpos, pick, newitem)
        ELSE SiftDownItem([heap EXCEPT ![pos + 1] = newitem], startpos, pos, newitem)

SiftUp(heap, pos) == SiftUpItem(heap, pos, pos, heap[pos + 1])

\* heapq.heappush(heap, item)
HeapPush(heap, item) ==
    With(Append(heap, item), LAMBDA h : SiftDown(h, 0, Len(h) - 1))

\* heapq.heappop(heap): the heap after the pop (the popped item is heap[1]).
HeapPop(heap) ==
    With(heap, LAMBDA h :
        LET lastelt == h[Len(h)]
            rest == SubSeq(h, 1, Len(h) - 1)
        IN  IF rest = <<>> THEN <<>>
            ELSE With([rest EXCEPT ![1] = lastelt], LAMBDA r : SiftUp(r, 0)))

\* heapq.heapify(x): _siftup at n/2 - 1, ..., 0.
RECURSIVE HeapifyFrom(_, _)
HeapifyFrom(heap, i) ==
    IF i < 0 THEN heap
    ELSE With(SiftUp(heap, i), LAMBDA h : HeapifyFrom(h, i - 1))

Heapify(heap) == HeapifyFrom(heap, (Len(heap) \div 2) - 1)

HeapProcs(heap) == {heap[i][2] : i \in DOMAIN heap}

\* ----------------------------------------------------------------- System
\* System._get_ready_children(): pops from the front of the heap while the
\* head is ready under its current timing; a head that is not ready but
\* whose key is stale is re-pushed with its fresh key; a head that is not
\* ready and whose key is current ends the scan.
\* A variant of the scan that trusts the key stored in the queue.
RECURSIVE GetReadyChildrenByKey(_, _, _, _, _, _)
GetReadyChildrenByKey(heap, ready, st, cnt, iv, current_time) ==
    IF heap = <<>>
    THEN [heap |-> heap, ready |-> ready]
    ELSE IF heap[1][1] <= current_time
    THEN With(<<HeapPop(heap), Append(ready, heap[1][2])>>, LAMBDA v :
             GetReadyChildrenByKey(v[1], v[2], st, cnt, iv, current_time))
    ELSE [heap |-> heap, ready |-> ready]

RECURSIVE GetReadyChildren(_, _, _, _, _, _)
GetReadyChildren(heap, ready, st, cnt, iv, current_time) ==
    IF heap = <<>>
    THEN [heap |-> heap, ready |-> ready]
    ELSE LET next_time == heap[1][1]
             process == heap[1][2]
             actual_next_time == NextExecutionTime(st, cnt, iv, process)
         IN  IF actual_next_time <= current_time
             THEN With(<<HeapPop(heap), Append(ready, process)>>, LAMBDA v :
                      GetReadyChildren(v[1], v[2], st, cnt, iv, current_time))
             ELSE IF actual_next_time # next_time
             THEN With(HeapPush(HeapPop(heap), <<actual_next_time, process>>), LAMBDA h :
                      GetReadyChildren(h, ready, st, cnt, iv, current_time))
             ELSE [heap |-> heap, ready |-> ready]

\* The loop of System._execute() over the ready children: each is executed
\* (outcome[child] says how its tick ends) and pushed back with its updated
\* time, on success and on a non-permission exception; PermissionError is
\* re-raised at once.
\* A variant of the loop that gives up the tick at the first child that
\* raises any exception and does not push that child back.
RECURSIVE ExecuteReadyDropFailed(_, _, _, _, _, _, _)
ExecuteReadyDropFailed(ready, heap, st, cnt, iv, outcome, dispatched) ==
    IF ready = <<>>
    THEN [heap |-> heap, cnt |-> cnt, raised |-> FALSE, dispatched |-> dispatched]
    ELSE LET child == Head(ready)
             cnt2 == ProcessExecuteCount(cnt, child, outcome[child])
         IN  IF outcome[child] # "ok"
             THEN [heap |-> heap, cnt |-> cnt2,
                   raised |-> outcome[child] = "permission",
                   dispatched |-> Append(dispatched, child)]
             ELSE With(<<HeapPush(heap, <<NextExecutionTime(st, cnt2, iv, child), child>>),
                         cnt2, Tail(ready), Append(dispatched, child)>>, LAMBDA v :
                      ExecuteReadyDropFailed(v[3], v[1], st, v[2], iv, outcome, v[4]))

RECURSIVE ExecuteReady(_, _, _, _, _, _, _)
ExecuteReady(ready, heap, st, cnt, iv, outcome, dispatched) ==
    IF ready = <<>>
    THEN [heap |-> heap, cnt |-> cnt, raised |-> FALSE, dispatched |-> dispatched]
    ELSE LET child == Head(ready)
             cnt2 == ProcessExecuteCount(cnt, child, outcome[child])
         IN  IF outcome[child] = "permission"
             THEN [heap |-> heap, cnt |-> cnt2, raised |-> TRUE,
                   dispatched |-> Append(dispatched, child)]
             ELSE With(<<HeapPush(heap, <<NextExecutionTime(st, cnt2, iv, child), child>>),
                         cnt2, Tail(ready), Append(dispatched, child)>>, LAMBDA v :
                      ExecuteReady(v[3], v[1], st, v[2], iv, outcome, v[4]))

\* A variant of System._execute that scans the queue again after the
\* re-insertions and dispatches what it finds ready.
SystemExecuteRescan(heap, st, cnt, iv, current_time, outcome) ==
    LET got == GetReadyChildren(heap, <<>>, st, cnt, iv, current_time)
        r1 == ExecuteReady(got.ready, got.heap, st, cnt, iv, outcome, <<>>)
        got2 == GetReadyChildren(r1.heap, <<>>, st, r1.cnt, iv, current_time)
    IN  IF r1.raised THEN r1
        ELSE ExecuteReady(got2.ready, got2.heap, st, r1.cnt, iv, outcome, r1.dispatched)

\* System._execute(states)
SystemExecute(heap, st, cnt, iv, current_time, outcome) ==
    With(GetReadyChildren(heap, <<>>, st, cnt, iv, current_time), LAMBDA got :
        ExecuteReady(got.ready, got.heap, st, cnt, iv, outcome, <<>>))

\* System.get_next_execution_time(): the current time of the process at the
\* head of the heap, or the System's own time when it has no children.
SystemNextExecutionTime(heap, st, cnt, iv) ==
    IF heap = <<>>
    THEN NextExecutionTime(st, cnt, iv, SystemId)
    ELSE NextExecutionTime(st, cnt, iv, heap[1][2])

\* How the tick of a dispatched child ends: it returns, it raises an
\* exception other than PermissionError, or it raises PermissionError.
Outcomes == {"ok", "error", "permission"}

\* The children that the scan of the heap finds ready at current_time.
ReadySet(heap, st, cnt, iv, current_time) ==
    Range(GetReadyChildren(heap, <<>>, st, cnt, iv, current_time).ready)

\* Outcomes for the children that are dispatched; the others get "ok" and
\* are not executed.
OutcomeChoices(ready) ==
    {[c \in Children |-> IF c \in ready THEN o[c] ELSE "ok"] : o \in [ready -> Outcomes]}

NoTick == [at |-> -1, due |-> {}, dueTime |-> [c \in Children |-> 0],
           dispatched |-> <<>>, raised |-> FALSE, stillDue |-> {},
           order |-> <<>>, stale |-> FALSE, failed |-> {}, denied |-> {}]

\* The history record of a tick of the System at time t.
TickRecord(t, res, outcome) ==
    [at |-> t,
     due |-> {c \in HeapProcs(process_heap) : NextTime(c) <= t},
     dueTime |-> [c \in Children |-> NextTime(c)],
     dispatched |-> res.dispatched,
     raised |-> res.raised,
     stillDue |-> {c \in Range(res.dispatched) :
                      NextExecutionTime(start_time, res.cnt, interval_ns, c) <= t},
     order |-> appendOrder,
     stale |-> \E i \in DOMAIN process_heap :
                  process_heap[i][1] # NextTime(process_heap[i][2]),
     failed |-> {c \in Range(res.dispatched) : outcome[c] # "ok"},
     denied |-> {c \in Range(res.dispatched) : outcome[c] = "permission"}]

\* ----------------------------------------------- processes of a Pipeline
\* The leaf processes of the pipelines and the containers above them.
Leaves == {"A", "B", "C"}
Containers == {"P", "Q", "R"}
Names == Leaves \cup Containers

Leaf(n) == [name |-> n, children |-> <<>>]
Pipe(n, cs) == [name |-> n, children |-> cs]

\* The trees of processes: [A, B, C]; B inside a nested container; A and B
\* nested two levels deep; a Pipeline without children.
PipelineShapes ==
    { Pipe("P", <<Leaf("A"), Leaf("B"), Leaf("C")>>),
      Pipe("P", <<Leaf("A"), Pipe("Q", <<Leaf("B")>>), Leaf("C")>>),
      Pipe("P", <<Pipe("Q", <<Leaf("A"), Pipe("R", <<Leaf("B")>>)>>), Leaf("C")>>),
      Pipe("P", <<>>) }

\* A bundle of states says, for each leaf process, whether what that process
\* writes is absent, written completely or written in part.
Bundles == [Leaves -> {"none", "full", "partial"}]
NoneWritten == [l \in Leaves |-> "none"]

NotInvoked == "not invoked"

\* The bundles that a System is ticked with.
SystemInputs == {NoneWritten, [l \in Leaves |-> "full"]}

\* A variant of the call of a child that passes the System's bundle on.
ChildInputPassedOn(bundle) == bundle

\* The argument of child.execute(...) in System._execute: States(), a new
\* empty bundle, whatever states the System was given.
ChildInput(bundle) == NoneWritten

\* A variant of the end of System._execute that returns a new empty bundle.
SystemReturnFresh(bundle) == NoneWritten

\* The end of System._execute(states): return states.
SystemReturn(bundle) == bundle

NoHandOver == [input |-> NoneWritten,
               given |-> [c \in Children |-> [called |-> FALSE, bundle |-> NoneWritten]],
               returned |-> [came |-> FALSE, bundle |-> NoneWritten]]

\* The history record of what a tick of the System with bundle input gave
\* to each child that it dispatched, and of what it returned.
HandOver(input, dispatched, raised) ==
    [input |-> input,
     returned |-> IF raised THEN [came |-> FALSE, bundle |-> NoneWritten]
                  ELSE [came |-> TRUE, bundle |-> SystemReturn(input)],
     given |-> [c \in Children |->
                   IF c \in Range(dispatched)
                   THEN [called |-> TRUE, bundle |-> ChildInput(input)]
                   ELSE [called |-> FALSE, bundle |-> NoneWritten]]]

\* System.append(process)
SystemAppend(c) ==
    /\ c \in Appendable
    /\ c \notin members
    /\ c \notin HeapProcs(process_heap)
    /\ process_heap' = HeapPush(process_heap, <<NextTime(c), c>>)
    /\ members' = members \cup {c}
    /\ appendOrder' = Append(appendOrder, c)
    /\ tick' = NoTick
    /\ handed' = NoHandOver
    /\ UNCHANGED <<interval_ns, start_time, execution_count, now>>
    /\ UNCHANGED sysFrame

\* System.remove(name): the first entry with that name is popped from the
\* list and the list is heapified; nothing changes when there is none.
SystemRemove(c) ==
    /\ c \in members
    /\ LET i == IndexOf([k \in DOMAIN process_heap |-> process_heap[k][2]], c)
       IN  process_heap' = IF i = 0 THEN process_heap
                           ELSE Heapify(RemoveAt(process_heap, i))
    /\ members' = members \ {c}
    /\ appendOrder' = SeqWithout(appendOrder, c)
    /\ tick' = NoTick
    /\ handed' = NoHandOver
    /\ UNCHANGED <<interval_ns, start_time, execution_count, now>>
    /\ UNCHANGED sysFrame

\* Process.initialize() on a set of processes: start_time = get_time(),
\* execution_count = 0.
InitializedStart(ps, t) == [p \in Procs |-> IF p \in ps THEN t ELSE start_time[p]]
InitializedCount(ps) == [p \in Procs |-> IF p \in ps THEN 0 ELSE execution_count[p]]

\* System.initialize(): itself, then every child in the priority queue.
SystemInitializeSet(heap) == {SystemId} \cup HeapProcs(heap)

\* A child's interval_ns is assigned between two ticks.
SetInterval(c, i) ==
    /\ c \in members
    /\ interval_ns[c] # i
    /\ interval_ns' = [interval_ns EXCEPT ![c] = i]
    /\ tick' = NoTick
    /\ handed' = NoHandOver
    /\ UNCHANGED <<start_time, execution_count, process_heap, now, members, appendOrder>>
    /\ UNCHANGED sysFrame

\* The clock read by get_time() moves on.
ClockAdvance ==
    /\ now < MaxTime
    /\ now' = now + 1
    /\ tick' = NoTick
    /\ handed' = NoHandOver
    /\ UNCHANGED <<interval_ns, start_time, execution_count, process_heap,
                   members, appendOrder>>
    /\ UNCHANGED sysFrame

\* One tick of the System with the bundle input: Process.execute() around
\* System._execute().
SystemTickWith(input) ==
    /\ members # {}
    /\ execution_count[SystemId] < MaxTicks
    /\ \E outcome \in OutcomeChoices(ReadySet(process_heap, start_time,
                                             execution_count, interval_ns, now)) :
         LET res == SystemExecute(process_heap, start_time, execution_count,
                                  interval_ns, now, outcome)
         IN  /\ process_heap' = res.heap
             /\ execution_count' =
                   ProcessExecuteCount(res.cnt, SystemId,
                                       IF res.raised THEN "permission" ELSE "ok")
             /\ tick' = TickRecord(now, res, outcome)
             /\ handed' = HandOver(input, res.dispatched, res.raised)
    /\ UNCHANGED <<interval_ns, start_time, now, members, appendOrder>>
    /\ UNCHANGED sysFrame

\* One tick of the System as a runner makes it: execute({}).
SystemTick == SystemTickWith(NoneWritten)

NoCall == [ran |-> FALSE, loop |-> FALSE, input |-> NoneWritten,
           beh |-> [l \in Leaves |-> "ok"], raised |-> FALSE, out |-> NoneWritten,
           invoked |-> <<>>, received |-> [n \in Names |-> NotInvoked],
           inputAfter |-> NoneWritten]

\* ------------------------------------------------------- State, devices
DeviceNames == {"cpu", "fan"}
DeviceClasses == {"Device", "Sensor", "Actuator"}
ProcessClasses == {"Process", "Environment", "Controller",
                   "Pipeline", "System", "FixedSpeedController"}
\* The class of an argument that is neither a Process nor a Device.
Object == "object"

\* A State maps each device name it holds to the device (here: its class).
Absent == [name |-> "", cls |-> ""]
NoDevices == [n \in DeviceNames |-> Absent]
NoState == "no state"

NoCallOnState == [ran |-> FALSE, op |-> "", stack |-> <<>>, args |-> <<>>,
                  before |-> NoDevices, raised |-> FALSE, msg |-> <<>>, ret |-> NoState]

NoQuery == [asked |-> FALSE, process |-> Object, device |-> Object, allowed |-> FALSE]

StateIdle ==
    /\ devices = NoDevices
    /\ call = NoCallOnState
    /\ query = NoQuery

\* ------------------------------------------------- Runner, worker threads
MaxWorkers == 2
Workers == 1..MaxWorkers
NoThread == 0

\* A thread that start() has not created yet.
Unborn == [pc |-> "unborn", wake |-> 0, slept |-> 0]

WallIdle ==
    /\ thread = NoThread
    /\ runner_stop_requested = FALSE
    /\ workers = [w \in Workers |-> Unborn]
    /\ caller_pc = "idle"
    /\ stop_called = FALSE

\* ------------------------------------------------------------ TimeSource
\* The thread that calls start(), stop() and run_for_duration().
CallerThread == 0
Threads == Workers \cup {CallerThread}

\* No runner is registered in any thread, and nothing was initialized.
ClockIdle ==
    /\ time_source = [th \in Threads |-> "none"]
    /\ initFrom = "none"

\* TimeSource.set_current(runner), called in thread th.
SetCurrent(ts, th) == [ts EXCEPT ![th] = "runner"]

\* TimeSource.clear_current(), called in thread th.
ClearCurrent(ts, th) == [ts EXCEPT ![th] = "none"]

\* TimeSource.get_current(), called in thread th.
GetCurrent(ts, th) == ts[th]

\* The clock that now() of a process reads in thread th: that of the runner
\* registered in the thread, otherwise the monotonic clock of the system.
ProcessClock(ts, th) == IF GetCurrent(ts, th) # "none" THEN "runner" ELSE "system"

\* -------------------------------------------------- FixedSpeedController
\* The roles of the bundles that the controller is ticked with.
RoleNames == {"actual", "desired"}

\* A Device with a value property; the entry of a State that has no device
\* under a name.
Dev(name, cls, value) == [name |-> name, cls |-> cls, value |-> value]
NoDev == Dev("", "", 0)

\* The values that devices carry and that actuators are configured with.
FixedValues == {1, 2}

\* The States of the bundles: under each name nothing, a Sensor or an
\* Actuator.
NoDevs == [n \in DeviceNames |-> NoDev]
FixedStates ==
    {s \in [DeviceNames -> {NoDev} \cup {Dev(n, c, v) : n \in DeviceNames,
                                                      c \in {"Sensor", "Actuator"},
                                                      v \in FixedValues}] :
        /\ \A n \in DeviceNames : s[n] # NoDev => s[n].name = n
        /\ \A n \in DeviceNames : s[n].cls = "Sensor" => s[n].value = 1}

\* A bundle (States) holds a State under some of the roles; States() holds
\* none.
NoRole == [present |-> FALSE, devices |-> NoDevs]
Role(state) == [present |-> TRUE, devices |-> state]
EmptyBundle == [r \in RoleNames |-> NoRole]
FixedBundles == [RoleNames -> {NoRole} \cup {Role(st) : st \in FixedStates}]

\* bool(states) of a States dict: false when it has no role.
Truthy(bundle) == \E r \in RoleNames : bundle[r].present

\* actuator_settings: per name, whether a value is configured and which.
NoSetting == [configured |-> FALSE, value |-> 0]
Settings == [DeviceNames -> {NoSetting} \cup {[configured |-> TRUE, value |-> v] :
                                                v \in FixedValues}]

NoFixedCall == [ran |-> FALSE, input |-> EmptyBundle, after |-> EmptyBundle,
                output |-> EmptyBundle, raised |-> FALSE]

FixedIdle ==
    /\ actuator_settings = [n \in DeviceNames |-> NoSetting]
    /\ fixed = NoFixedCall

\* ------------------------------------------- construction of processes
NoAttempt == [made |-> FALSE, name |-> "", interval_ns |-> 0, accepted |-> FALSE]

ConstructIdle ==
    /\ constructed = <<>>
    /\ attempt = NoAttempt

\* ------------------------------------------- assembly of a Pipeline
AssemblyIdle ==
    /\ pipe_children = <<>>
    /\ assembled = <<>>

\* ------------------------------------------- StatefulProcess, its Buffer
\* StatefulProcess.buffer before initialize(): None.
NoBuffer == [made |-> FALSE, entries |-> <<>>]

\* No call has been made on the buffer.
NoBufLog == [op |-> "none", stored |-> 0, read |-> 0, monotone |-> TRUE,
             agePruned |-> FALSE, sized |-> 0, disorder |-> FALSE,
             before |-> <<>>, removed |-> 0]

BufferIdle ==
    /\ buffer = NoBuffer
    /\ buffer_size_limit = 1
    /\ auto_prune_enabled = TRUE
    /\ max_age_ns = 0
    /\ bufLog = NoBufLog

PipelineIdle ==
    /\ pipeline = Pipe("P", <<>>)
    /\ states = NoneWritten
    /\ stop_requested = FALSE
    /\ pipe_pc = "idle"
    /\ okTicks = 0
    /\ last = NoCall

InitProcs ==
    /\ interval_ns \in [Procs -> Intervals]
    /\ interval_ns[SystemId] = 1
    /\ start_time = [p \in Procs |-> 0]
    /\ execution_count = [p \in Procs |-> 0]

NoRun == [ran |-> FALSE, ended |-> "idle", allOk |-> TRUE,
          counts |-> [c \in Children |-> 0]]

RunnerIdle ==
    /\ prev = NoRun
    /\ run_pc = "idle"
    /\ end_time = 0
    /\ max_duration_ns = 0
    /\ cycles = 0
    /\ tickLog = [c \in Children |-> <<>>]
    /\ allOk = TRUE

InitSystem ==
    /\ InitProcs
    /\ \A c \in Children \ Appendable : interval_ns[c] = 1
    /\ process_heap = <<>>
    /\ now = 0
    /\ members = {}
    /\ appendOrder = <<>>
    /\ tick = NoTick
    /\ handed = NoHandOver
    /\ RunnerIdle
    /\ interval_ns[PipelineId] = 1
    /\ PipelineIdle
    /\ StateIdle
    /\ WallIdle
    /\ BufferIdle
    /\ ClockIdle
    /\ FixedIdle
    /\ ConstructIdle
    /\ AssemblyIdle

NextSystem ==
    \/ \E c \in Children : SystemAppend(c)
    \/ \E c \in Children : SystemRemove(c)
    \/ \E c \in Children, i \in Intervals : SetInterval(c, i)
    \/ ClockAdvance
    \/ SystemTick

SpecSystem == InitSystem /\ [][NextSystem]_vars

\* C2: at every tick boundary the priority queue of the System holds each
\* child that was appended and not removed exactly once: none is missing and
\* none is duplicated, whatever the outcome of the ticks before.
QueueHoldsEachChildOnce ==
    /\ HeapProcs(process_heap) = members
    /\ Len(process_heap) = Cardinality(members)

\* C3: in a tick of the System that runs to its end, every child whose
\* current next-due time was <= now() at the start of the tick is dispatched,
\* also when the keys stored in the queue were stale.
EveryDueChildDispatched ==
    (tick.at >= 0 /\ ~tick.raised) => tick.due \subseteq Range(tick.dispatched)

\* C4: within one tick of the System no child is dispatched twice, even if
\* it is still due after being re-inserted.
DispatchedAtMostOnce ==
    \A i, j \in DOMAIN tick.dispatched :
        i # j => tick.dispatched[i] # tick.dispatched[j]

\* A tick has dispatched a child that is still due after its re-insertion.
StillDueAfterDispatch ==
    /\ tick.at >= 0
    /\ ~tick.raised
    /\ tick.stillDue # {}

\* C5: within a tick the dispatched children run in order of their next-due
\* time, earliest first, and children with equal next-due times run in the
\* order in which they were appended.
DispatchInDueThenAppendOrder ==
    \A i, j \in DOMAIN tick.dispatched :
        i < j =>
            LET a == tick.dispatched[i]
                b == tick.dispatched[j]
            IN  \/ tick.dueTime[a] < tick.dueTime[b]
                \/ /\ tick.dueTime[a] = tick.dueTime[b]
                   /\ IndexOf(tick.order, a) < IndexOf(tick.order, b)

\* -------------------------------------------------------------- FastRunner
\* FastRunner._start_time, set by run_for_duration.
RunnerStartTime == 0

\* The System's own execution_count is followed up to this value; it is not
\* read while the queue holds a child, and an empty System ticks fewer times.
RootTickCap == MaxDuration + 1

\* A variant of the safety ceiling that stops one unit early.
ShouldContinueExecutionEarly(stop_flag, simulation_time, maxd) ==
    ~stop_flag /\ ~(simulation_time - RunnerStartTime >= maxd)

\* A variant without the safety ceiling.
ShouldContinueExecutionNoCeiling(stop_flag, simulation_time, maxd) ==
    ~stop_flag

\* FastRunner._should_continue_execution()
ShouldContinueExecution(stop_flag, simulation_time, maxd) ==
    ~stop_flag /\ ~(simulation_time - RunnerStartTime > maxd)

\* The loop condition of run_for_duration.
LoopCondition(stop_flag, simulation_time, endt, maxd) ==
    simulation_time < endt /\ ShouldContinueExecution(stop_flag, simulation_time, maxd)

\* Runner.stop() up to the join: without a thread it returns at once and
\* leaves _stop_requested as it is; with one it sets _stop_requested.
StopRequest(th, stop_flag) == IF th = NoThread THEN stop_flag ELSE TRUE

\* FastRunner._advance_time_to(target_time)
AdvanceTimeTo(simulation_time, target_time) ==
    IF target_time > simulation_time THEN target_time ELSE simulation_time

RECURSIVE LogDispatch(_, _, _)
LogDispatch(log, dispatched, t) ==
    IF dispatched = <<>> THEN log
    ELSE LogDispatch([log EXCEPT ![Head(dispatched)] = Append(@, t)], Tail(dispatched), t)

\* run_for_duration up to the loop: the clock is set to 0, the runner becomes
\* the time source, the tree is initialized, end_time is computed.
RunStart(T) ==
    /\ run_pc = "idle"
    /\ UNCHANGED prev
    /\ now' = 0
    /\ start_time' = InitializedStart(SystemInitializeSet(process_heap), 0)
    /\ execution_count' = InitializedCount(SystemInitializeSet(process_heap))
    /\ end_time' = 0 + T
    /\ run_pc' = "running"
    /\ cycles' = 0
    /\ tickLog' = [c \in Children |-> <<>>]
    /\ allOk' = TRUE
    /\ tick' = NoTick
    /\ handed' = NoHandOver
    /\ UNCHANGED <<interval_ns, process_heap, members, appendOrder, max_duration_ns>>
    /\ UNCHANGED runFrame
    /\ time_source' = SetCurrent(time_source, CallerThread)
    /\ initFrom' = ProcessClock(SetCurrent(time_source, CallerThread), CallerThread)

\* _execute_one_cycle when the root is due: main_process.execute({}). An
\* exception of the root leaves run_for_duration.
RunnerExecute ==
    /\ run_pc = "running"
    /\ LoopCondition(runner_stop_requested, now, end_time, max_duration_ns)
    /\ SystemNextExecutionTime(process_heap, start_time, execution_count, interval_ns) <= now
    /\ \E ready \in {ReadySet(process_heap, start_time, execution_count, interval_ns, now)} :
       \E outcome \in OutcomeChoices(ready) :
       \E res \in {SystemExecute(process_heap, start_time, execution_count,
                                  interval_ns, now, outcome)} :
       \E rec \in {TickRecord(now, res, outcome)} :
             /\ process_heap' = res.heap
             /\ execution_count' =
                   IF res.raised \/ res.cnt[SystemId] >= RootTickCap
                   THEN res.cnt
                   ELSE ProcessExecuteCount(res.cnt, SystemId, "ok")
             /\ tick' = rec
             /\ handed' = HandOver(NoneWritten, res.dispatched, res.raised)
             /\ allOk' = (allOk /\ rec.failed = {})
             /\ tickLog' = IF allOk /\ rec.failed = {}
                           THEN LogDispatch(tickLog, res.dispatched, now)
                           ELSE [c \in Children |-> <<>>]
             /\ run_pc' = IF res.raised THEN "raised" ELSE "running"
    /\ cycles' = 1 - cycles
    /\ UNCHANGED <<interval_ns, start_time, now, members, appendOrder,
                   end_time, max_duration_ns, prev>>
    /\ UNCHANGED runFrame
    /\ time_source' = IF run_pc' = "raised"
                      THEN ClearCurrent(time_source, CallerThread) ELSE time_source
    /\ UNCHANGED initFrom

\* _execute_one_cycle when the root is not due: jump to its next time.
RunnerAdvance ==
    /\ run_pc = "running"
    /\ LoopCondition(runner_stop_requested, now, end_time, max_duration_ns)
    /\ LET next_time == SystemNextExecutionTime(process_heap, start_time,
                                                execution_count, interval_ns)
       IN  /\ ~(next_time <= now)
           /\ now' = AdvanceTimeTo(now, next_time)
    /\ cycles' = 1 - cycles
    /\ tick' = NoTick
    /\ handed' = NoHandOver
    /\ UNCHANGED <<interval_ns, start_time, execution_count, process_heap,
                   members, appendOrder, run_pc, end_time, max_duration_ns,
                   tickLog, allOk, prev>>
    /\ UNCHANGED runFrame
    /\ UNCHANGED clkVars

\* The loop of run_for_duration ends.
RunnerExit ==
    /\ run_pc = "running"
    /\ ~LoopCondition(runner_stop_requested, now, end_time, max_duration_ns)
    /\ run_pc' = "done"
    /\ cycles' = 1 - cycles
    /\ tick' = NoTick
    /\ handed' = NoHandOver
    /\ UNCHANGED <<interval_ns, start_time, execution_count, process_heap, now,
                   members, appendOrder, end_time, max_duration_ns, tickLog, allOk, prev>>
    /\ UNCHANGED runFrame
    /\ time_source' = ClearCurrent(time_source, CallerThread)
    /\ UNCHANGED initFrom

\* Code of a tick calls runner.stop() while run_for_duration is running.
\* FastRunner inherits Runner.stop() and never has a thread, so there is
\* nothing to join.
StopFromTick ==
    /\ run_pc = "running"
    /\ tick.at >= 0
    /\ ~stop_called
    /\ thread = NoThread
    /\ runner_stop_requested' = StopRequest(thread, runner_stop_requested)
    /\ stop_called' = TRUE
    /\ UNCHANGED <<thread, workers, caller_pc>>
    /\ UNCHANGED <<sysVars, runVars, pipeVars, stateVars, bufVars, clkVars, fixVars, conVars, asmVars>>

\* run_for_duration is called a second time on the same runner, with the
\* same duration, after the first call has returned or raised.
RunAgain ==
    /\ run_pc \in {"done", "raised"}
    /\ ~prev.ran
    /\ prev' = [ran |-> TRUE, ended |-> run_pc, allOk |-> allOk,
                counts |-> [c \in Children |-> execution_count[c]]]
    /\ now' = 0
    /\ start_time' = InitializedStart(SystemInitializeSet(process_heap), 0)
    /\ execution_count' = InitializedCount(SystemInitializeSet(process_heap))
    /\ end_time' = 0 + end_time
    /\ run_pc' = "running"
    /\ cycles' = 0
    /\ tickLog' = [c \in Children |-> <<>>]
    /\ allOk' = TRUE
    /\ tick' = NoTick
    /\ handed' = NoHandOver
    /\ UNCHANGED <<interval_ns, process_heap, members, appendOrder, max_duration_ns>>
    /\ UNCHANGED runFrame
    /\ time_source' = SetCurrent(time_source, CallerThread)
    /\ initFrom' = ProcessClock(SetCurrent(time_source, CallerThread), CallerThread)

\* The orders in which the children of the run's System were appended.
RunnerAppendOrders == {<<1, 2, 3>>, <<3, 1, 2>>, <<2, 1>>, <<>>}

\* The values of FastRunner.max_duration_ns that runs are configured with.
CeilingChoices == {1, MaxDuration}

RECURSIVE AppendAll(_, _)
AppendAll(heap, order) ==
    IF order = <<>> THEN heap
    ELSE AppendAll(HeapPush(heap, <<0, Head(order)>>), Tail(order))

InitRunner ==
    /\ InitProcs
    /\ now = 0
    /\ appendOrder \in RunnerAppendOrders
    /\ members = Range(appendOrder)
    /\ \A c \in Children \ members : interval_ns[c] = 1
    /\ process_heap = AppendAll(<<>>, appendOrder)
    /\ tick = NoTick
    /\ handed = NoHandOver
    /\ run_pc = "idle"
    /\ end_time = 0
    /\ max_duration_ns \in CeilingChoices
    /\ prev = NoRun
    /\ cycles = 0
    /\ tickLog = [c \in Children |-> <<>>]
    /\ allOk = TRUE
    /\ interval_ns[PipelineId] = 1
    /\ PipelineIdle
    /\ StateIdle
    /\ WallIdle
    /\ BufferIdle
    /\ ClockIdle
    /\ FixedIdle
    /\ ConstructIdle
    /\ AssemblyIdle

RunnerStep == RunnerExecute \/ RunnerAdvance \/ RunnerExit

NextRunner ==
    \/ \E T \in 1..MaxDuration : RunStart(T)
    \/ RunnerExecute
    \/ RunnerAdvance
    \/ RunnerExit

\* run_for_duration is a sequential loop: while it is running, its loop
\* condition is evaluated again and the step that follows from it is taken.
SpecRunner == InitRunner /\ [][NextRunner]_vars /\ WF_vars(RunnerStep)


\* The virtual times k * I, k >= 0, below limit, in increasing order.
TimesBelow(limit, I) == [k \in 1..CeilDiv(limit, I) |-> (k - 1) * I]

\* C6 as stated: after run_for(T) over a System whose ticks all succeeded,
\* each child with interval I was ticked exactly once at each k * I < T and
\* at no other time, ceil(T / I) times in all.
TickedAtEachMultipleBelowT ==
    (run_pc = "done" /\ allOk) =>
        \A c \in members :
            /\ tickLog[c] = TimesBelow(end_time, interval_ns[c])
            /\ Len(tickLog[c]) = CeilDiv(end_time, interval_ns[c])

\* C6: after run_for(T) over a System whose ticks all succeeded, each child
\* with interval I was ticked exactly once at each k * I that is below T and
\* not above the safety ceiling max_duration_ns, and at no other time.
TickedAtEachMultipleBelowTAndCeiling ==
    (run_pc = "done" /\ allOk) =>
        \A c \in members :
            tickLog[c] = TimesBelow(Min(end_time, max_duration_ns + 1), interval_ns[c])

\* A run of all-successful ticks has ended on the safety ceiling, before T,
\* with a child that was ticked several times.
RunCutByCeiling ==
    /\ run_pc = "done"
    /\ allOk
    /\ max_duration_ns + 1 < end_time
    /\ \E c \in members : Len(tickLog[c]) >= 2

\* C7: run_for always terminates: a run that has started leaves its loop,
\* by reaching end_time, by the safety ceiling or by an exception.
RunAlwaysTerminates == (run_pc = "running") ~> (run_pc \in {"done", "raised"})

\* C14: an exception raised by the root's execute does not end the run:
\* after a tick of the root that raised, run_for_duration is still running.
RootExceptionLeavesRunGoing ==
    (tick.at >= 0 /\ tick.raised) => run_pc = "running"

\* C18: no tick is executed at a virtual time more than max_duration_ns
\* after the start of the run, and once the elapsed virtual time exceeds
\* max_duration_ns the next step of the run leaves the loop, executing
\* nothing, even when end_time lies further on.
NoTickBeyondCeiling ==
    /\ [](tick.at >= 0 => tick.at - RunnerStartTime <= max_duration_ns)
    /\ [][(run_pc = "running" /\ now - RunnerStartTime > max_duration_ns)
            => (run_pc' = "done" /\ execution_count' = execution_count)]_vars

\* A run has been halted by the ceiling before end_time, after a child was
\* ticked at the very virtual time max_duration_ns.
HaltedPastCeiling ==
    /\ run_pc = "done"
    /\ now - RunnerStartTime > max_duration_ns
    /\ now < end_time
    /\ \E c \in members : \E i \in DOMAIN tickLog[c] : tickLog[c][i] = max_duration_ns

\* A run in which runner.stop() may be called from a tick.
InitRunnerStop ==
    /\ InitRunner
    /\ appendOrder = <<2, 1>>
    /\ max_duration_ns = MaxDuration

NextRunnerStop ==
    \/ \E T \in 1..MaxDuration : RunStart(T)
    \/ RunnerExecute
    \/ RunnerAdvance
    \/ RunnerExit
    \/ StopFromTick

SpecRunnerStop == InitRunnerStop /\ [][NextRunnerStop]_vars

\* C16: after stop() has been called on a running Runner the stop flag is
\* set and the next step of the loop leaves it: no further tick is started.
StopEndsLoop ==
    [][(stop_called /\ run_pc = "running")
        => (runner_stop_requested /\ run_pc' = "done")]_vars

\* Two runs of run_for_duration, one after the other, on one runner.
InitRerun ==
    /\ InitRunner
    /\ appendOrder \in {<<2, 1>>, <<1, 2, 3>>}

NextRerun ==
    \/ \E T \in 1..MaxDuration : RunStart(T)
    \/ RunnerExecute
    \/ RunnerAdvance
    \/ RunnerExit
    \/ RunAgain

SpecRerun == InitRerun /\ [][NextRerun]_vars

\* A run of all-successful ticks over a newly built System leaves each
\* child with interval I this execution_count.
FreshRunCount(c) == CeilDiv(Min(end_time, max_duration_ns + 1), interval_ns[c])

\* C19: a second run_for(T) over the same runner and tree, all of whose
\* ticks succeed, ends with the per-child execution counts that a first
\* such run gives, and with those of the first run when that was such a
\* run too.
RerunCountsAsFreshRun ==
    (run_pc = "done" /\ allOk /\ prev.ran) =>
        \A c \in members :
            /\ execution_count[c] = FreshRunCount(c)
            /\ (prev.ended = "done" /\ prev.allOk) => execution_count[c] = prev.counts[c]

\* ---------------------------------------------------------- StandardRunner
\* The clock of a StandardRunner is time.monotonic_ns(); one unit of the
\* clock stands for 100 ms, the default interval_ns of a Process.
\* time.sleep(0.1) after an exception of the root, in units of the clock.
ErrorSleep == 1
\* The longest sleep between two checks of the stop flag that the
\* description of the runner allows: 100 ms.
SleepQuantum == 1
\* The timeout of the join in Runner.stop(): 5.0 s, in units of the clock.
JoinTimeout == 50

\* threading.Thread.is_alive()
IsAlive(w) == w # NoThread /\ workers[w].pc \notin {"unborn", "ended"}

wallFrame == <<interval_ns, members, appendOrder, runVars, pipeVars, stateVars, bufVars,
              fixVars, conVars, asmVars>>

\* Runner.start(): refused with RuntimeError while the thread of _thread is
\* alive; otherwise the tree is initialized at the current time in the
\* calling thread, the stop flag is cleared and a new thread is started on
\* _execution_loop, whose first statement registers the runner in that thread.
RunnerStart ==
    /\ caller_pc = "idle"
    /\ ~(thread # NoThread /\ IsAlive(thread))
    /\ \E w \in Workers :
         /\ workers[w].pc = "unborn"
         /\ \A v \in Workers : v < w => workers[v].pc # "unborn"
         /\ thread' = w
         /\ workers' = [workers EXCEPT ![w] = [pc |-> "check", wake |-> 0, slept |-> 0]]
    /\ start_time' = InitializedStart(SystemInitializeSet(process_heap), now)
    /\ execution_count' = InitializedCount(SystemInitializeSet(process_heap))
    /\ runner_stop_requested' = FALSE
    /\ stop_called' = FALSE
    /\ tick' = NoTick
    /\ handed' = NoHandOver
    /\ UNCHANGED <<process_heap, now, caller_pc>>
    /\ UNCHANGED wallFrame
    /\ initFrom' = ProcessClock(time_source, CallerThread)
    /\ time_source' = SetCurrent(time_source, thread')

\* Runner.stop() up to the join on the thread.
RunnerStopBegin ==
    /\ caller_pc = "idle"
    /\ thread # NoThread
    /\ runner_stop_requested' = StopRequest(thread, runner_stop_requested)
    /\ caller_pc' = "joining"
    /\ stop_called' = TRUE
    /\ tick' = NoTick
    /\ handed' = NoHandOver
    /\ UNCHANGED <<thread, workers, start_time, execution_count, process_heap, now>>
    /\ UNCHANGED wallFrame
    /\ UNCHANGED clkVars

\* The join returns because the thread has ended; _thread becomes None.
RunnerStopJoined ==
    /\ caller_pc = "joining"
    /\ ~IsAlive(thread)
    /\ thread' = NoThread
    /\ caller_pc' = "idle"
    /\ tick' = NoTick
    /\ handed' = NoHandOver
    /\ UNCHANGED <<runner_stop_requested, workers, stop_called,
                   start_time, execution_count, process_heap, now>>
    /\ UNCHANGED wallFrame
    /\ UNCHANGED clkVars

\* The join gives up: its timeout of 5 s passes while the thread stays
\* inside one tick of the root. A warning is logged and _thread becomes
\* None.
RunnerStopTimedOut ==
    /\ caller_pc = "joining"
    /\ IsAlive(thread)
    /\ workers[thread].pc = "ticking"
    /\ now' = now + JoinTimeout
    /\ thread' = NoThread
    /\ caller_pc' = "idle"
    /\ tick' = NoTick
    /\ handed' = NoHandOver
    /\ UNCHANGED <<runner_stop_requested, workers, stop_called,
                   start_time, execution_count, process_heap>>
    /\ UNCHANGED wallFrame
    /\ UNCHANGED clkVars

\* _execution_loop: the while condition finds the stop flag set.
WorkerExit(w) ==
    /\ workers[w].pc = "check"
    /\ runner_stop_requested
    /\ workers' = [workers EXCEPT ![w] = [pc |-> "ended", wake |-> 0, slept |-> 0]]
    /\ tick' = NoTick
    /\ handed' = NoHandOver
    /\ UNCHANGED <<thread, runner_stop_requested, caller_pc, stop_called,
                   start_time, execution_count, process_heap, now>>
    /\ UNCHANGED wallFrame
    /\ time_source' = ClearCurrent(time_source, w)
    /\ UNCHANGED initFrom

\* _execution_loop: the root is due, _execute_process_once() is entered.
WorkerBeginTick(w) ==
    /\ workers[w].pc = "check"
    /\ ~runner_stop_requested
    /\ SystemNextExecutionTime(process_heap, start_time, execution_count, interval_ns) <= now
    /\ execution_count[SystemId] < MaxTicks
    /\ workers' = [workers EXCEPT ![w] = [pc |-> "ticking", wake |-> 0, slept |-> 0]]
    /\ tick' = NoTick
    /\ handed' = NoHandOver
    /\ UNCHANGED <<thread, runner_stop_requested, caller_pc, stop_called,
                   start_time, execution_count, process_heap, now>>
    /\ UNCHANGED wallFrame
    /\ UNCHANGED clkVars

\* main_process.execute({}) ends. When it returns the loop goes round;
\* when it raises, the exception is logged and the thread sleeps 0.1 s.
WorkerEndTick(w) ==
    /\ workers[w].pc = "ticking"
    /\ \E outcome \in OutcomeChoices(ReadySet(process_heap, start_time,
                                             execution_count, interval_ns, now)) :
         LET res == SystemExecute(process_heap, start_time, execution_count,
                                  interval_ns, now, outcome)
         IN  /\ process_heap' = res.heap
             /\ execution_count' =
                   ProcessExecuteCount(res.cnt, SystemId,
                                       IF res.raised THEN "permission" ELSE "ok")
             /\ workers' = [workers EXCEPT ![w] =
                   IF res.raised
                   THEN [pc |-> "sleeping", wake |-> now + ErrorSleep, slept |-> ErrorSleep]
                   ELSE [pc |-> "check", wake |-> 0, slept |-> 0]]
    /\ tick' = NoTick
    /\ handed' = NoHandOver
    /\ UNCHANGED <<thread, runner_stop_requested, caller_pc, stop_called, start_time, now>>
    /\ UNCHANGED wallFrame
    /\ UNCHANGED clkVars

\* _execution_loop: the root is not due; one time.sleep(sleep_duration) for
\* the whole distance to its next time.
WorkerSleep(w) ==
    /\ workers[w].pc = "check"
    /\ ~runner_stop_requested
    /\ LET next_time == SystemNextExecutionTime(process_heap, start_time,
                                                execution_count, interval_ns)
           sleep_duration == next_time - now
       IN  /\ ~(next_time <= now)
           /\ sleep_duration > 0
           /\ workers' = [workers EXCEPT ![w] =
                 [pc |-> "sleeping", wake |-> now + sleep_duration, slept |-> sleep_duration]]
    /\ tick' = NoTick
    /\ handed' = NoHandOver
    /\ UNCHANGED <<thread, runner_stop_requested, caller_pc, stop_called,
                   start_time, execution_count, process_heap, now>>
    /\ UNCHANGED wallFrame
    /\ UNCHANGED clkVars

\* time.sleep returns once its duration has passed.
WorkerWake(w) ==
    /\ workers[w].pc = "sleeping"
    /\ now >= workers[w].wake
    /\ workers' = [workers EXCEPT ![w] = [pc |-> "check", wake |-> 0, slept |-> 0]]
    /\ tick' = NoTick
    /\ handed' = NoHandOver
    /\ UNCHANGED <<thread, runner_stop_requested, caller_pc, stop_called,
                   start_time, execution_count, process_heap, now>>
    /\ UNCHANGED wallFrame
    /\ UNCHANGED clkVars

\* The Systems that a StandardRunner is built over.
WallAppendOrders == {<<1>>, <<2, 1>>}

InitWall ==
    /\ InitProcs
    /\ now = 0
    /\ appendOrder \in WallAppendOrders
    /\ members = Range(appendOrder)
    /\ \A c \in Children \ members : interval_ns[c] = 1
    /\ process_heap = AppendAll(<<>>, appendOrder)
    /\ tick = NoTick
    /\ handed = NoHandOver
    /\ interval_ns[PipelineId] = 1
    /\ RunnerIdle
    /\ PipelineIdle
    /\ StateIdle
    /\ WallIdle
    /\ BufferIdle
    /\ ClockIdle
    /\ FixedIdle
    /\ ConstructIdle
    /\ AssemblyIdle

NextWall ==
    \/ RunnerStart
    \/ RunnerStopBegin
    \/ RunnerStopJoined
    \/ RunnerStopTimedOut
    \/ \E w \in Workers : WorkerExit(w)
    \/ \E w \in Workers : WorkerBeginTick(w)
    \/ \E w \in Workers : WorkerEndTick(w)
    \/ \E w \in Workers : WorkerSleep(w)
    \/ \E w \in Workers : WorkerWake(w)
    \/ ClockAdvance

SpecWall == InitWall /\ [][NextWall]_vars

\* C15: whatever start() and stop() calls have been made, at most one
\* worker thread is alive in the loop, so no two ticks overlap.
AtMostOneWorker ==
    /\ Cardinality({w \in Workers : IsAlive(w)}) <= 1
    /\ Cardinality({w \in Workers : workers[w].pc = "ticking"}) <= 1

\* C17: a sleep of the loop never lasts longer than 100 ms: the stop flag
\* is checked again after at most one quantum, however far away the next
\* due time of the root is.
SleepsAtMostOneQuantum ==
    \A w \in Workers : workers[w].pc = "sleeping" => workers[w].slept <= SleepQuantum

\* ---------------------------------------------- Process.execute, Pipeline
\* How the _process of a leaf ends: it returns the bundle with its writes;
\* it raises before writing anything; it raises after it has written part of
\* its output into the bundle it was given; it raises PermissionError.
LeafOutcomes == {"ok", "error", "partial", "permission"}

\* What execute() of a process without children returns when _process does
\* not raise PermissionError: the return value of _process, or, when
\* _process raised, result_states, the copy that was handed to _process.
\* Pipeline._process (a Pipeline without children) returns its input.
LeafResult(n, result_states, o) ==
    IF n \notin Leaves THEN result_states
    ELSE IF o = "ok" THEN [result_states EXCEPT ![n] = "full"]
    ELSE IF o = "partial" THEN [result_states EXCEPT ![n] = "partial"]
    ELSE result_states

\* Process.execute(states) of a node of the tree. acc collects which
\* processes had their _process invoked and what each was given.
RECURSIVE ExecuteNode(_, _, _, _)
RECURSIVE ExecuteChildren(_, _, _, _)

\* A variant of the loop over the children that treats PermissionError like
\* any other exception of a child: logged, and the loop continues.
RECURSIVE ExecuteChildrenAbsorbing(_, _, _, _)
ExecuteChildrenAbsorbing(children, result_states, beh, acc) ==
    IF children = <<>>
    THEN [states |-> result_states, raised |-> FALSE, acc |-> acc]
    ELSE LET r == ExecuteNode(Head(children), result_states, beh, acc)
         IN  ExecuteChildrenAbsorbing(Tail(children),
                                      IF r.raised THEN result_states ELSE r.states,
                                      beh, r.acc)

\* The process whose timing fields belong to each leaf of a Pipeline.
LeafProc == [l \in Leaves |-> CASE l = "A" -> 1 [] l = "B" -> 2 [] OTHER -> 3]

\* A variant of the loop over the children that leaves out a child whose own
\* interval_ns does not divide the current time.
RECURSIVE ExecuteChildrenOnOwnPeriod(_, _, _, _)
ExecuteChildrenOnOwnPeriod(children, result_states, beh, acc) ==
    IF children = <<>>
    THEN [states |-> result_states, raised |-> FALSE, acc |-> acc]
    ELSE IF /\ Head(children).name \in Leaves
            /\ now % interval_ns[LeafProc[Head(children).name]] # 0
         THEN ExecuteChildrenOnOwnPeriod(Tail(children), result_states, beh, acc)
         ELSE LET r == ExecuteNode(Head(children), result_states, beh, acc)
              IN  IF r.raised
                  THEN [states |-> result_states, raised |-> TRUE, acc |-> r.acc]
                  ELSE ExecuteChildrenOnOwnPeriod(Tail(children), r.states, beh, r.acc)

\* The loop of execute() over self.children: the output of a child is the
\* input of the next; PermissionError of a child is re-raised.
ExecuteChildren(children, result_states, beh, acc) ==
    IF children = <<>>
    THEN [states |-> result_states, raised |-> FALSE, acc |-> acc]
    ELSE LET r == ExecuteNode(Head(children), result_states, beh, acc)
         IN  IF r.raised
             THEN [states |-> result_states, raised |-> TRUE, acc |-> r.acc]
             ELSE ExecuteChildren(Tail(children), r.states, beh, r.acc)

ExecuteNode(node, input, beh, acc) ==
    IF node.children = <<>>
    THEN LET acc2 == [invoked |-> Append(acc.invoked, node.name),
                      received |-> [acc.received EXCEPT ![node.name] = input]]
         IN  IF node.name \in Leaves /\ beh[node.name] = "permission"
             THEN [states |-> input, raised |-> TRUE, acc |-> acc2]
             ELSE [states |-> LeafResult(node.name, input,
                                         IF node.name \in Leaves THEN beh[node.name] ELSE "ok"),
                   raised |-> FALSE, acc |-> acc2]
    ELSE ExecuteChildren(node.children, input, beh, acc)

\* A bundle as an object: which object it is and what it holds.
CallerObject(bundle) == [id |-> 0, val |-> bundle]

\* A variant of execute() that works on the bundle it was given.
SameObject(obj) == obj

\* copy.deepcopy(states) at the head of execute(): another object with the
\* same content.
DeepCopy(obj) == [id |-> obj.id + 1, val |-> obj.val]

\* One call of execute() on the Pipeline and the record kept of it.
\* inputAfter is what the caller's bundle holds when the call is over: the
\* processes write into the object that execute() works on.
Execute(input, beh, inLoop) ==
    LET caller == CallerObject(input)
        result_states == DeepCopy(caller)
        r == ExecuteNode(pipeline, result_states.val, beh,
                         [invoked |-> <<>>, received |-> [n \in Names |-> NotInvoked]])
    IN  [ran |-> TRUE, loop |-> inLoop, input |-> input, beh |-> beh,
         raised |-> r.raised, out |-> r.states,
         invoked |-> r.acc.invoked, received |-> r.acc.received,
         inputAfter |-> IF result_states.id = caller.id THEN r.states ELSE input]

\* The leaves of a tree in the order in which execute() reaches them.
RECURSIVE LeavesInOrder(_)
RECURSIVE LeavesInOrderOf(_)
LeavesInOrderOf(children) ==
    IF children = <<>> THEN <<>>
    ELSE LeavesInOrder(Head(children)) \o LeavesInOrderOf(Tail(children))

LeavesInOrder(node) ==
    IF node.children = <<>> THEN <<node.name>> ELSE LeavesInOrderOf(node.children)

\* The behaviours of the leaves in one call of execute(): a leaf that is
\* not in the tree, or that comes after a leaf raising PermissionError and
\* so is not reached, is given "ok".
BehaviourChoices ==
    LET order == LeavesInOrder(pipeline)
    IN  {b \in [Leaves -> LeafOutcomes] :
            /\ \A l \in Leaves \ Range(order) : b[l] = "ok"
            /\ \A i, j \in DOMAIN order :
                   (i < j /\ order[i] \in Leaves /\ b[order[i]] = "permission")
                       => b[order[j]] = "ok"}

\* The bundles a caller passes to execute().
InputBundles == {NoneWritten, [NoneWritten EXCEPT !["C"] = "full"]}

pipeFrame == <<process_heap, members, appendOrder, tick, handed, runVars, stateVars,
              wallVars, bufVars, clkVars, fixVars, conVars, asmVars>>

\* A caller calls execute(states) on the Pipeline: nothing of the Pipeline
\* changes; a PermissionError reaches the caller.
PipelineExecute ==
    /\ pipe_pc = "idle"
    /\ \E input \in InputBundles, beh \in BehaviourChoices :
         last' = Execute(input, beh, FALSE)
    /\ UNCHANGED <<interval_ns, start_time, execution_count, now, pipeline, states,
                   stop_requested, pipe_pc, okTicks>>
    /\ UNCHANGED pipeFrame

\* Pipeline.start() up to its loop.
PipelineStart ==
    /\ pipe_pc = "idle"
    /\ start_time' = [start_time EXCEPT ![PipelineId] = now]
    /\ execution_count' = [execution_count EXCEPT ![PipelineId] = 0]
    /\ stop_requested' = FALSE
    /\ pipe_pc' = "loop"
    /\ okTicks' = 0
    /\ last' = NoCall
    /\ UNCHANGED <<interval_ns, now, pipeline, states>>
    /\ UNCHANGED pipeFrame

\* One pass of the loop of Pipeline.start() that finds the Pipeline due:
\* execute(self.states), then the sleep to the next target time.
PipelineCycle ==
    /\ pipe_pc = "loop"
    /\ ~stop_requested
    /\ execution_count[PipelineId] < MaxCycles
    /\ now >= NextTime(PipelineId)
    /\ \E beh \in BehaviourChoices :
         LET done == Execute(states, beh, TRUE)
         IN  /\ last' = done
             /\ states' = IF done.raised THEN states ELSE done.out
             /\ okTicks' = IF done.raised THEN okTicks ELSE okTicks + 1
    /\ execution_count' = [execution_count EXCEPT ![PipelineId] = @ + 1]
    /\ LET next_target == start_time[PipelineId]
                          + (execution_count[PipelineId] + 1) * interval_ns[PipelineId]
       IN  now' = IF next_target - now > 0 THEN next_target ELSE now
    /\ UNCHANGED <<interval_ns, start_time, pipeline, stop_requested, pipe_pc>>
    /\ UNCHANGED pipeFrame

\* Pipeline.stop(), called from another thread.
PipelineStop ==
    /\ pipe_pc = "loop"
    /\ ~stop_requested
    /\ stop_requested' = TRUE
    /\ UNCHANGED <<interval_ns, start_time, execution_count, now, pipeline, states,
                   pipe_pc, okTicks, last>>
    /\ UNCHANGED pipeFrame

\* The loop of start() sees stop_requested and start() returns.
PipelineExit ==
    /\ pipe_pc = "loop"
    /\ stop_requested
    /\ pipe_pc' = "stopped"
    /\ UNCHANGED <<interval_ns, start_time, execution_count, now, pipeline, states,
                   stop_requested, okTicks, last>>
    /\ UNCHANGED pipeFrame

InitPipeline ==
    /\ InitProcs
    /\ \A c \in Children : interval_ns[c] = 1
    /\ process_heap = <<>>
    /\ now = 0
    /\ members = {}
    /\ appendOrder = <<>>
    /\ tick = NoTick
    /\ handed = NoHandOver
    /\ RunnerIdle
    /\ pipeline \in PipelineShapes
    /\ states = NoneWritten
    /\ stop_requested = FALSE
    /\ pipe_pc = "idle"
    /\ okTicks = 0
    /\ last = NoCall
    /\ StateIdle
    /\ WallIdle
    /\ BufferIdle
    /\ ClockIdle
    /\ FixedIdle
    /\ ConstructIdle
    /\ AssemblyIdle

NextPipeline ==
    \/ PipelineExecute
    \/ PipelineStart
    \/ PipelineCycle
    \/ PipelineStop
    \/ PipelineExit

SpecPipeline == InitPipeline /\ [][NextPipeline]_vars

\* C1: execution_count counts the successful ticks only: while the timing
\* loop of the Pipeline drives the ticks, the counter equals the number of
\* ticks whose execute() returned; a tick that raised has left it unchanged.
CountIsSuccessfulTicks ==
    pipe_pc \in {"loop", "stopped"} => execution_count[PipelineId] = okTicks

FlatABC == Pipe("P", <<Leaf("A"), Leaf("B"), Leaf("C")>>)

\* C8: in a tick of the Pipeline [A, B, C] that runs to its end, A receives
\* the input, C receives B's output when B returns, the Pipeline returns C's
\* output, and when B raises a non-permission error C receives what B
\* received, the bundle as it was before B ran.
ThreadingSkipsFailedChild ==
    (last.ran /\ pipeline = FlatABC /\ ~last.raised) =>
        /\ last.received["A"] = last.input
        /\ last.beh["B"] = "ok" =>
               last.received["C"] = [last.received["B"] EXCEPT !["B"] = "full"]
        /\ last.beh["B"] \in {"error", "partial"} =>
               last.received["C"] = last.received["B"]
        /\ last.beh["C"] = "ok" =>
               last.out = [last.received["C"] EXCEPT !["C"] = "full"]

\* C9: when a process of the tree raises PermissionError during a tick, the
\* error leaves execute() of the Pipeline and no process after the raising
\* one is invoked in that tick, at every depth of nesting.
PermissionDeniedAbortsTick ==
    last.ran =>
        \A i \in DOMAIN last.invoked :
            (last.invoked[i] \in Leaves /\ last.beh[last.invoked[i]] = "permission")
                => (last.raised /\ i = Len(last.invoked))

\* B, two containers below the Pipeline, has raised PermissionError, and C,
\* a later child of the Pipeline itself, was not invoked.
DeepPermissionDenied ==
    /\ last.ran
    /\ pipeline = Pipe("P", <<Pipe("Q", <<Leaf("A"), Pipe("R", <<Leaf("B")>>)>>), Leaf("C")>>)
    /\ last.beh["B"] = "permission"
    /\ "B" \in Range(last.invoked)
    /\ "C" \notin Range(last.invoked)
    /\ last.raised

\* ------------------------------------------------ State and permissions
\* The classes that each class derives from, directly or not.
Bases ==
    [cls \in ProcessClasses \cup DeviceClasses \cup {Object} |->
        CASE cls \in {"Environment", "Controller", "Pipeline", "System"} -> {"Process"}
          [] cls = "FixedSpeedController" -> {"Controller", "Process"}
          [] cls \in {"Sensor", "Actuator"} -> {"Device"}
          [] OTHER -> {}]

\* isinstance on the classes of base/process.py, base/device.py,
\* base/pipeline.py, base/system.py and controllers/fixed.py.
IsInstance(cls, of) == cls = of \/ of \in Bases[cls]

\* DEVICE_PERMISSIONS, in the order of the list.
DEVICE_PERMISSIONS ==
    << <<"Environment", "Sensor", TRUE>>,
       <<"Environment", "Actuator", FALSE>>,
       <<"Controller", "Actuator", TRUE>>,
       <<"Controller", "Sensor", FALSE>>,
       <<"Process", "Device", TRUE>> >>

\* A variant of the scan of the rules in which the last match decides.
RECURSIVE LastMatch(_, _, _)
LastMatch(rules, process_class, device_class) ==
    IF rules = <<>> THEN FALSE
    ELSE LET r == rules[Len(rules)]
         IN  IF IsInstance(process_class, r[1]) /\ IsInstance(device_class, r[2])
             THEN r[3]
             ELSE LastMatch(SubSeq(rules, 1, Len(rules) - 1), process_class, device_class)

\* can_process_modify_device(process, device): the first rule that matches
\* both classes decides; without a match the answer is False.
RECURSIVE FirstMatch(_, _, _)
FirstMatch(rules, process_class, device_class) ==
    IF rules = <<>> THEN FALSE
    ELSE IF IsInstance(process_class, Head(rules)[1]) /\ IsInstance(device_class, Head(rules)[2])
    THEN Head(rules)[3]
    ELSE FirstMatch(Tail(rules), process_class, device_class)

CanProcessModifyDevice(process_class, device_class) ==
    FirstMatch(DEVICE_PERMISSIONS, process_class, device_class)

\* A frame of the call stack: the class of its self when that is a Process,
\* or "other" (no self, or a self that is no Process). A stack lists its
\* frames from the innermost outwards, as inspect.stack() does.
NoProcess == "other"
Frames == ProcessClasses \cup {NoProcess}

\* A variant of the search of the stack that returns the outermost Process.
RECURSIVE FindOutermostProcess(_)
FindOutermostProcess(stack) ==
    IF stack = <<>> THEN NoProcess
    ELSE IF stack[Len(stack)] \in ProcessClasses THEN stack[Len(stack)]
    ELSE FindOutermostProcess(SubSeq(stack, 1, Len(stack) - 1))

\* A variant of the search of the stack that prefers the nearest container
\* (a Process that is neither an Environment nor a Controller).
RECURSIVE FindContainerProcess(_)
FindContainerProcess(stack) ==
    IF stack = <<>> THEN NoProcess
    ELSE IF Head(stack) \in {"Process", "Pipeline", "System"} THEN Head(stack)
    ELSE LET outer == FindContainerProcess(Tail(stack))
         IN  IF outer # NoProcess THEN outer
             ELSE IF Head(stack) \in ProcessClasses THEN Head(stack)
             ELSE NoProcess

\* State._find_calling_process(): the first frame, from the innermost, whose
\* self is a Process; None when there is none.
RECURSIVE FindCallingProcess(_)
FindCallingProcess(stack) ==
    IF stack = <<>> THEN NoProcess
    ELSE IF Head(stack) \in ProcessClasses THEN Head(stack)
    ELSE FindCallingProcess(Tail(stack))

\* The texts of the two PermissionError messages, part by part.
WithDeviceMsg(process_class, device) ==
    <<process_class, " cannot modify ", device.cls, " '", device.name, "'">>
WithDevicesMsg(process_class, device) ==
    <<process_class, " cannot modify", device.cls, " '", device.name, "'">>

\* A variant of with_device that writes the device into self.devices
\* instead of into a copy.
WithDeviceInPlace(self_devices, stack, device) ==
    LET modifying_process == FindCallingProcess(stack)
    IN  IF modifying_process # NoProcess
           /\ ~CanProcessModifyDevice(modifying_process, device.cls)
        THEN [self |-> self_devices, raised |-> TRUE,
              msg |-> WithDeviceMsg(modifying_process, device), ret |-> NoState]
        ELSE [self |-> [self_devices EXCEPT ![device.name] = device],
              raised |-> FALSE, msg |-> <<>>,
              ret |-> [self_devices EXCEPT ![device.name] = device]]

\* State.with_device(device): self.devices after the call, whether
\* PermissionError was raised, its message, and the State returned.
WithDevice(self_devices, stack, device) ==
    LET modifying_process == FindCallingProcess(stack)
    IN  IF modifying_process # NoProcess
           /\ ~CanProcessModifyDevice(modifying_process, device.cls)
        THEN [self |-> self_devices, raised |-> TRUE,
              msg |-> WithDeviceMsg(modifying_process, device), ret |-> NoState]
        ELSE [self |-> self_devices, raised |-> FALSE, msg |-> <<>>,
              ret |-> [self_devices EXCEPT ![device.name] = device]]

\* An item of a dict of devices: the key and, under it, a Device with its
\* name and class.
Item(key, device) == [key |-> key, name |-> device.name, cls |-> device.cls]

\* new_devices.update(devices): each Device is stored under the key that it
\* has in devices.
RECURSIVE DictUpdate(_, _)
DictUpdate(new_devices, devs) ==
    IF devs = <<>> THEN new_devices
    ELSE DictUpdate([new_devices EXCEPT ![Head(devs).key] =
                        [name |-> Head(devs).name, cls |-> Head(devs).cls]],
                    Tail(devs))

\* The first device of devs, in the order of the dict, that the process may
\* not modify (0 when there is none).
FirstDenied(process_class, devs) ==
    IF \E i \in DOMAIN devs : ~CanProcessModifyDevice(process_class, devs[i].cls)
    THEN CHOOSE i \in DOMAIN devs :
            /\ ~CanProcessModifyDevice(process_class, devs[i].cls)
            /\ \A j \in 1..(i - 1) : CanProcessModifyDevice(process_class, devs[j].cls)
    ELSE 0

\* State.with_devices(devices): every device is checked before any is added.
WithDevices(self_devices, stack, devs) ==
    LET modifying_process == FindCallingProcess(stack)
        denied == IF modifying_process = NoProcess THEN 0
                  ELSE FirstDenied(modifying_process, devs)
    IN  IF denied # 0
        THEN [self |-> self_devices, raised |-> TRUE,
              msg |-> WithDevicesMsg(modifying_process, devs[denied]), ret |-> NoState]
        ELSE [self |-> self_devices, raised |-> FALSE, msg |-> <<>>,
              ret |-> DictUpdate(self_devices, devs)]

DeviceValues == [name : DeviceNames, cls : DeviceClasses]

\* The call stacks of at most MaxStack frames.
Stacks == UNION {[1..n -> Frames] : n \in 0..MaxStack}

\* The dicts passed to with_devices: devices under distinct names, in the
\* order of the dict.
DeviceDicts ==
    {<<Item(d.name, d)>> : d \in DeviceValues}
        \cup {<<Item(p[1].name, p[1]), Item(p[2].name, p[2])>> :
                 p \in {q \in DeviceValues \X DeviceValues : q[1].name # q[2].name}}
        \cup {<<>>}

\* The dicts passed to with_devices whose keys are any names: at most two
\* items under distinct keys.
KeyedItems == {Item(k, d) : k \in DeviceNames, d \in DeviceValues}
KeyedDicts ==
    {<<i>> : i \in KeyedItems}
        \cup {p \in KeyedItems \X KeyedItems : p[1].key # p[2].key}
        \cup {<<>>}

\* The call stacks of at most one frame.
ShortStacks == {<<>>} \cup {<<f>> : f \in Frames}

\* State.without_device(name): a State without the key name, self.devices
\* as it was.
WithoutDevice(self_devices, name) ==
    [self |-> self_devices, raised |-> FALSE, msg |-> <<>>,
     ret |-> [self_devices EXCEPT ![name] = Absent]]

stateFrame == <<sysVars, runVars, pipeVars, wallVars, bufVars, clkVars, fixVars, conVars, asmVars>>

\* state.with_device(device) is called under a call stack of stacks.
CallWithDeviceUnder(stacks) ==
    /\ ~call.ran
    /\ ~query.asked
    /\ \E stack \in stacks, device \in DeviceValues :
         LET r == WithDevice(devices, stack, device)
         IN  /\ devices' = r.self
             /\ call' = [ran |-> TRUE, op |-> "with_device", stack |-> stack,
                         args |-> <<device>>, before |-> devices,
                         raised |-> r.raised, msg |-> r.msg, ret |-> r.ret]
    /\ UNCHANGED query
    /\ UNCHANGED stateFrame

\* state.with_device(device) is called under some call stack.
CallWithDevice == CallWithDeviceUnder(Stacks)

\* state.with_devices(devices) is called under a call stack of stacks with a
\* dict of dicts.
CallWithDevicesUnder(stacks, dicts) ==
    /\ ~call.ran
    /\ ~query.asked
    /\ \E stack \in stacks, devs \in dicts :
         LET r == WithDevices(devices, stack, devs)
         IN  /\ devices' = r.self
             /\ call' = [ran |-> TRUE, op |-> "with_devices", stack |-> stack,
                         args |-> devs, before |-> devices,
                         raised |-> r.raised, msg |-> r.msg, ret |-> r.ret]
    /\ UNCHANGED query
    /\ UNCHANGED stateFrame

\* state.with_devices(devices) is called under some call stack, the keys of
\* devices being the names of the devices.
CallWithDevices == CallWithDevicesUnder(Stacks, DeviceDicts)

\* state.without_device(name) is called.
CallWithoutDevice ==
    /\ ~call.ran
    /\ ~query.asked
    /\ \E name \in DeviceNames :
         LET r == WithoutDevice(devices, name)
         IN  /\ devices' = r.self
             /\ call' = [ran |-> TRUE, op |-> "without_device", stack |-> <<>>,
                         args |-> <<[name |-> name, cls |-> ""]>>, before |-> devices,
                         raised |-> r.raised, msg |-> r.msg, ret |-> r.ret]
    /\ UNCHANGED query
    /\ UNCHANGED stateFrame

\* The caller goes on with the State that the call returned.
ContinueWithReturned ==
    /\ call.ran
    /\ ~call.raised
    /\ devices' = call.ret
    /\ call' = NoCallOnState
    /\ UNCHANGED query
    /\ UNCHANGED stateFrame

\* The caller keeps the State it made the call on (the call raised, or its
\* result is dropped).
ContinueWithOriginal ==
    /\ call.ran
    /\ call' = NoCallOnState
    /\ UNCHANGED <<devices, query>>
    /\ UNCHANGED stateFrame

\* can_process_modify_device(process, device) is called directly, with
\* arguments of any class.
CallCanProcessModifyDevice ==
    /\ ~call.ran
    /\ ~query.asked
    /\ \E process_class \in ProcessClasses \cup {Object},
          device_class \in DeviceClasses \cup {Object} :
         query' = [asked |-> TRUE, process |-> process_class, device |-> device_class,
                   allowed |-> CanProcessModifyDevice(process_class, device_class)]
    /\ UNCHANGED <<devices, call>>
    /\ UNCHANGED stateFrame

\* The caller has used the answer.
QueryReturn ==
    /\ query.asked
    /\ query' = NoQuery
    /\ UNCHANGED <<devices, call>>
    /\ UNCHANGED stateFrame

InitState ==
    /\ InitProcs
    /\ \A p \in Procs : interval_ns[p] = 1
    /\ process_heap = <<>>
    /\ now = 0
    /\ members = {}
    /\ appendOrder = <<>>
    /\ tick = NoTick
    /\ handed = NoHandOver
    /\ RunnerIdle
    /\ PipelineIdle
    /\ devices \in {NoDevices,
                    [NoDevices EXCEPT !["cpu"] = [name |-> "cpu", cls |-> "Sensor"]]}
    /\ call = NoCallOnState
    /\ query = NoQuery
    /\ WallIdle
    /\ BufferIdle
    /\ ClockIdle
    /\ FixedIdle
    /\ ConstructIdle
    /\ AssemblyIdle

NextState ==
    \/ CallWithDevice
    \/ CallWithDevices
    \/ ContinueWithReturned
    \/ ContinueWithOriginal
    \/ CallCanProcessModifyDevice
    \/ QueryReturn

SpecState == InitState /\ [][NextState]_vars

\* C10: no with_device or with_devices call succeeds while the innermost
\* Process on the call stack is denied on the class of a device being
\* written: the call raises PermissionError whose message names the class
\* of that process and the class and name of a denied device, no State is
\* returned, and the State the call was made on keeps its devices.
PermissionClosure ==
    call.ran =>
        \A i \in DOMAIN call.stack :
            ( /\ call.stack[i] \in ProcessClasses
              /\ \A j \in 1..(i - 1) : call.stack[j] \notin ProcessClasses
              /\ \E k \in DOMAIN call.args :
                     ~CanProcessModifyDevice(call.stack[i], call.args[k].cls) )
            => /\ call.raised
               /\ call.ret = NoState
               /\ call.stack[i] \in Range(call.msg)
               /\ \E k \in DOMAIN call.args :
                     /\ ~CanProcessModifyDevice(call.stack[i], call.args[k].cls)
                     /\ call.args[k].cls \in Range(call.msg)
                     /\ call.args[k].name \in Range(call.msg)
               /\ devices = call.before

\* A Controller called from inside an Environment has passed with_devices a
\* permitted Actuator followed by a denied Sensor; the call has raised.
DeniedAmongPermitted ==
    /\ call.ran
    /\ call.op = "with_devices"
    /\ Len(call.stack) >= 2
    /\ call.stack[1] = "Controller"
    /\ call.stack[2] = "Environment"
    /\ Len(call.args) = 2
    /\ call.args[1].cls = "Actuator"
    /\ call.args[2].cls = "Sensor"
    /\ call.raised
    /\ call.before # NoDevices

\* C11: with_device is decided by the innermost Process on the call stack
\* and by nothing further out: the call raises exactly when that Process is
\* denied on the class of the device. So a Controller (or a subclass) with a
\* Pipeline, a System or a generic Process further out is denied on a
\* Sensor, and with no Process on the stack the call makes no check and
\* returns the State with the device added.
InnermostProcessDecides ==
    (call.ran /\ call.op = "with_device") =>
        LET device == call.args[1]
            inner == {i \in DOMAIN call.stack :
                        /\ call.stack[i] \in ProcessClasses
                        /\ \A j \in 1..(i - 1) : call.stack[j] \notin ProcessClasses}
        IN  /\ \A i \in inner :
                   call.raised <=> ~CanProcessModifyDevice(call.stack[i], device.cls)
            /\ \A i \in inner :
                   ( /\ call.stack[i] \in {"Controller", "FixedSpeedController"}
                     /\ device.cls = "Sensor"
                     /\ \E k \in (i + 1)..Len(call.stack) :
                            call.stack[k] \in {"Pipeline", "System", "Process"} )
                   => call.raised /\ devices = call.before
            /\ inner = {} =>
                   /\ ~call.raised
                   /\ call.ret = [call.before EXCEPT ![device.name] = device]

\* A Controller whose caller is a Pipeline has been denied on a Sensor.
ControllerInPipelineDenied ==
    /\ call.ran
    /\ call.op = "with_device"
    /\ call.stack = <<"Controller", "Pipeline">>
    /\ call.args[1].cls = "Sensor"
    /\ call.raised

\* C12: can_process_modify_device(p, d) is the outcome of the first rule, in
\* the order (Environment, Sensor) allow, (Environment, Actuator) deny,
\* (Controller, Actuator) allow, (Controller, Sensor) deny, (Process, Device)
\* allow, whose two classes are those of p and d or classes they derive
\* from; it is deny when no rule matches.
FirstRuleDecides ==
    query.asked =>
        LET environments == {"Environment"}
            controllers == {"Controller", "FixedSpeedController"}
            p == query.process
            d == query.device
            expected ==
                IF p \in environments /\ d = "Sensor" THEN TRUE
                ELSE IF p \in environments /\ d = "Actuator" THEN FALSE
                ELSE IF p \in controllers /\ d = "Actuator" THEN TRUE
                ELSE IF p \in controllers /\ d = "Sensor" THEN FALSE
                ELSE IF p \in ProcessClasses /\ d \in DeviceClasses THEN TRUE
                ELSE FALSE
        IN  query.allowed = expected

\* A subclass of Controller has been asked about a Sensor and is denied.
SubclassInheritsDenial ==
    /\ query.asked
    /\ query.process = "FixedSpeedController"
    /\ query.device = "Sensor"
    /\ ~query.allowed

\* C13: a with_device call whose innermost Process is a Controller (or a
\* subclass of it) succeeds only if the device is an Actuator.
ControllerWritesActuatorsOnly ==
    (call.ran /\ call.op = "with_device" /\ ~call.raised) =>
        \A i \in DOMAIN call.stack :
            ( /\ call.stack[i] \in {"Controller", "FixedSpeedController"}
              /\ \A j \in 1..(i - 1) : call.stack[j] \notin ProcessClasses )
            => call.args[1].cls = "Actuator"

\* A System that was built with its children is ticked with any bundle.
InitSystemInput == InitWall

NextSystemInput ==
    \/ ClockAdvance
    \/ \E input \in SystemInputs : SystemTickWith(input)

SpecSystemInput == InitSystemInput /\ [][NextSystemInput]_vars

\* C20: in every tick of the System each dispatched child is called with an
\* empty bundle, whatever bundle the System was ticked with; a Pipeline
\* that is such a child therefore hands an empty bundle to its head child,
\* at whatever depth that child lies.
ChildrenGetEmptyBundle ==
    tick.at >= 0 =>
        \A c \in Range(tick.dispatched) :
            /\ handed.given[c].called
            /\ handed.given[c].bundle = NoneWritten
            /\ \A shape \in PipelineShapes :
                   LET r == ExecuteNode(shape, handed.given[c].bundle, [l \in Leaves |-> "ok"],
                                        [invoked |-> <<>>,
                                         received |-> [n \in Names |-> NotInvoked]])
                   IN  r.acc.invoked # <<>> =>
                           r.acc.received[Head(r.acc.invoked)] = NoneWritten

\* A System ticked with a bundle that is not empty has dispatched two
\* children.
TickedWithFullBundle ==
    /\ tick.at >= 0
    /\ handed.input # NoneWritten
    /\ Len(tick.dispatched) >= 2

\* C21: a tick of the System that returns hands back exactly the bundle it
\* was given, whether no, some or all children were due and whether
\* dispatched children returned or failed with non-permission errors.
SystemReturnsItsInput ==
    (tick.at >= 0 /\ ~tick.raised) =>
        /\ handed.returned.came
        /\ handed.returned.bundle = handed.input

\* A System ticked with a full bundle has dispatched two children, one of
\* which failed, and has returned.
ReturnedAfterChildFailure ==
    /\ tick.at >= 0
    /\ handed.input # NoneWritten
    /\ Len(tick.dispatched) >= 2
    /\ tick.failed # {}
    /\ ~tick.raised
    /\ handed.returned.came

\* C22: System.get_next_execution_time() is, for a System with children in
\* its queue, the minimum of the current next-due times of those children,
\* and for an empty System its own start_time + execution_count *
\* interval_ns.
NextTimeIsEarliestChild ==
    LET queued == HeapProcs(process_heap)
        result == SystemNextExecutionTime(process_heap, start_time,
                                          execution_count, interval_ns)
    IN  /\ queued # {} =>
               /\ \E c \in queued : result = NextTime(c)
               /\ \A c \in queued : result <= NextTime(c)
        /\ queued = {} => result = NextTime(SystemId)

\* C23: a tick of the System in which no child raises PermissionError does
\* not raise and dispatches every child that its scan found ready, also
\* after a child that raised another exception; each child that raised
\* another exception is back in the queue under its current next-due time,
\* is found ready by the next scan, and is dispatched in a tick that follows
\* at once without a PermissionError.
FailedChildRetried ==
    [][tick'.at >= 0 =>
        /\ tick'.denied = {} =>
              /\ ~tick'.raised
              /\ Range(tick'.dispatched) =
                    ReadySet(process_heap, start_time, execution_count,
                             interval_ns, now)
        /\ \A c \in tick'.failed \ tick'.denied :
              /\ \E i \in DOMAIN process_heap' :
                    process_heap'[i] = <<NextTime(c)', c>>
              /\ c \in ReadySet(process_heap', start_time', execution_count',
                                interval_ns', now')
        /\ (tick.at >= 0 /\ tick'.denied = {}) =>
              (tick.failed \ tick.denied) \subseteq Range(tick'.dispatched)
    ]_vars

\* A tick without PermissionError went on after a child that raised another
\* exception: that child was not the last that the tick dispatched.
WentOnAfterFailedChild ==
    /\ tick.at >= 0 /\ tick.denied = {} /\ ~tick.raised
    /\ \E i \in DOMAIN tick.dispatched :
          i < Len(tick.dispatched) /\ tick.dispatched[i] \in tick.failed

\* ------------------------------------------------------------- Buffer
\* An entry of Buffer._entries is <<timestamp, item>>; item stands for the
\* copy of the bundle that the call stored, numbered in the order of the
\* calls.
Stamps == 0..MaxStamp

\* A variant of Buffer.store that appends the entry at the end.
BufferStoreAtEnd(entries, timestamp, item) ==
    Append(entries, <<timestamp, item>>)

\* Buffer.store(timestamp, states): insert before the first entry with a
\* larger timestamp, at the end when there is none.
BufferStore(entries, timestamp, item) ==
    LET later == {i \in DOMAIN entries : timestamp < entries[i][1]}
        insert_index == IF later = {} THEN Len(entries) + 1
                        ELSE CHOOSE i \in later : \A j \in later : i <= j
    IN  SubSeq(entries, 1, insert_index - 1) \o <<<<timestamp, item>>>>
            \o SubSeq(entries, insert_index, Len(entries))

\* A variant of prune_before that also drops the entries stored under
\* timestamp itself.
PruneBeforeInclusive(entries, timestamp) ==
    LET kept == {i \in DOMAIN entries : entries[i][1] > timestamp}
        keep_index == IF kept = {} THEN Len(entries) + 1
                      ELSE CHOOSE i \in kept : \A j \in kept : i <= j
    IN  SubSeq(entries, keep_index, Len(entries))

\* Buffer.prune_before(timestamp): keep the entries from the first one whose
\* timestamp is >= timestamp on.
PruneBefore(entries, timestamp) ==
    LET kept == {i \in DOMAIN entries : entries[i][1] >= timestamp}
        keep_index == IF kept = {} THEN Len(entries) + 1
                      ELSE CHOOSE i \in kept : \A j \in kept : i <= j
    IN  SubSeq(entries, keep_index, Len(entries))

\* The value that prune_before returns: original_count - len(self._entries).
PruneBeforeCount(entries, timestamp) ==
    Len(entries) - Len(PruneBefore(entries, timestamp))

\* Buffer.clear()
BufferClear(entries) == <<>>

\* The result None of get_oldest and get_latest, and a result that is an entry.
NoEntry == [none |-> TRUE, entry |-> <<0, 0>>]
AnEntry(e) == [none |-> FALSE, entry |-> e]

\* Buffer.get_oldest()
GetOldest(entries) ==
    IF entries = <<>> THEN NoEntry ELSE AnEntry(entries[1])

\* Buffer.get_latest()
GetLatest(entries) ==
    IF entries = <<>> THEN NoEntry ELSE AnEntry(entries[Len(entries)])

\* A variant of the size loop of _auto_prune that removes nothing.
PruneBySizeNot(entries, limit) == entries

\* The size loop of StatefulProcess._auto_prune: while the buffer holds more
\* than limit entries, prune_before(oldest timestamp + 1).
RECURSIVE PruneBySize(_, _)
PruneBySize(entries, limit) ==
    IF Len(entries) > limit
    THEN With(PruneBefore(entries, GetOldest(entries).entry[1] + 1), LAMBDA rest :
             PruneBySize(rest, limit))
    ELSE entries

\* The age step of StatefulProcess._auto_prune, with current_time the clock
\* reading it makes: skipped when max_age_ns is 0.
PruneByAge(entries, maxage, current_time) ==
    IF maxage > 0 THEN PruneBefore(entries, current_time - maxage) ELSE entries

\* StatefulProcess._auto_prune()
AutoPrune(entries, limit, maxage, current_time) ==
    PruneBySize(PruneByAge(entries, maxage, current_time), limit)

\* StatefulProcess._import_state(states): a buffer that is None is created
\* by initialize(); the bundle is stored under the clock reading stored_at;
\* then _auto_prune() runs if enabled, its clock reading being pruned_at.
ImportState(buf, auto, limit, maxage, stored_at, pruned_at, item) ==
    LET entries0 == IF buf.made THEN buf.entries ELSE <<>>
        stored == BufferStore(entries0, stored_at, item)
    IN  [made |-> TRUE,
         entries |-> IF auto THEN AutoPrune(stored, limit, maxage, pruned_at)
                     ELSE stored]

bufFrame == <<sysVars, runVars, pipeVars, stateVars, wallVars, clkVars, fixVars, conVars, asmVars>>

\* The StatefulProcess is process 1; stop_requested is its flag.
StatefulId == 1

\* The readings of the clock that initialize() takes: the earliest and the
\* latest stamp.
InitStamps == {0, MaxStamp}

\* What a call on the StatefulProcess leaves unchanged besides its own
\* timing fields and its Buffer.
statefulFrame == <<interval_ns, process_heap, now, members, appendOrder, tick, handed,
                   pipeline, states, pipe_pc, okTicks, last,
                   runVars, stateVars, wallVars, clkVars, fixVars, conVars, asmVars>>

\* StatefulProcess.initialize(): Process.initialize(), then a new empty
\* Buffer.
StatefulInitialize ==
    /\ \E init_at \in InitStamps :
         start_time' = InitializedStart({StatefulId}, init_at)
    /\ execution_count' = InitializedCount({StatefulId})
    /\ stop_requested' = FALSE
    /\ buffer' = [made |-> TRUE, entries |-> <<>>]
    /\ bufLog' = [NoBufLog EXCEPT !.op = "initialize"]
    /\ UNCHANGED <<buffer_size_limit, auto_prune_enabled, max_age_ns>>
    /\ UNCHANGED statefulFrame

\* A call of the default _import_state. While the process has no Buffer the
\* call begins with self.initialize(). The clock is read for the store and,
\* when the age step runs, once more in _auto_prune.
ImportStateCall ==
    /\ bufLog.stored < MaxStored
    /\ IF buffer.made
       THEN UNCHANGED <<start_time, execution_count, stop_requested>>
       ELSE /\ \E init_at \in InitStamps :
                 start_time' = InitializedStart({StatefulId}, init_at)
            /\ execution_count' = InitializedCount({StatefulId})
            /\ stop_requested' = FALSE
    /\ \E stored_at \in Stamps :
       \E pruned_at \in (IF auto_prune_enabled /\ max_age_ns > 0
                         THEN Stamps ELSE {stored_at}) :
         LET item == bufLog.stored + 1
             entries0 == IF buffer.made THEN buffer.entries ELSE <<>>
             stored == BufferStore(entries0, stored_at, item)
             aged == PruneByAge(stored, max_age_ns, pruned_at)
             res == ImportState(buffer, auto_prune_enabled, buffer_size_limit,
                                max_age_ns, stored_at, pruned_at, item)
         IN  /\ buffer' = res
             /\ bufLog' =
                  [op |-> "import",
                   stored |-> item,
                   read |-> pruned_at,
                   monotone |-> /\ bufLog.monotone
                                /\ bufLog.read <= stored_at
                                /\ stored_at <= pruned_at,
                   agePruned |-> \/ bufLog.agePruned
                                 \/ auto_prune_enabled /\ Len(aged) < Len(stored),
                   sized |-> IF auto_prune_enabled
                             THEN Len(aged) - Len(res.entries) ELSE 0,
                   disorder |-> bufLog.disorder,
                   before |-> <<>>, removed |-> 0]
    /\ UNCHANGED <<buffer_size_limit, auto_prune_enabled, max_age_ns>>
    /\ UNCHANGED statefulFrame

InitStateful ==
    /\ InitProcs
    /\ \A p \in Procs : interval_ns[p] = 1
    /\ process_heap = <<>>
    /\ now = 0
    /\ members = {}
    /\ appendOrder = <<>>
    /\ tick = NoTick
    /\ handed = NoHandOver
    /\ RunnerIdle
    /\ pipeline = Pipe("P", <<>>)
    /\ states = NoneWritten
    /\ stop_requested \in BOOLEAN
    /\ pipe_pc = "idle"
    /\ okTicks = 0
    /\ last = NoCall
    /\ StateIdle
    /\ WallIdle
    /\ buffer = NoBuffer
    /\ buffer_size_limit \in 1..MaxLimit
    /\ auto_prune_enabled \in BOOLEAN
    /\ max_age_ns \in 0..MaxAge
    /\ bufLog = NoBufLog
    /\ ClockIdle
    /\ FixedIdle
    /\ ConstructIdle
    /\ AssemblyIdle

NextStateful ==
    \/ StatefulInitialize
    \/ ImportStateCall

SpecStateful == InitStateful /\ [][NextStateful]_vars

\* C24: immediately after a default import_state with auto-prune enabled the
\* buffer holds at most buffer_size_limit entries, whatever the clock read.
BufferWithinLimit ==
    (bufLog.op = "import" /\ auto_prune_enabled) =>
        Len(buffer.entries) <= buffer_size_limit

\* An import_state whose size loop removed entries and left a full buffer.
SizeLoopPruned ==
    /\ bufLog.op = "import" /\ auto_prune_enabled
    /\ bufLog.sized > 0
    /\ Len(buffer.entries) = buffer_size_limit

\* C25: after n default import_state calls with auto-prune enabled, clock
\* readings that never decreased and no entry dropped for its age, the
\* buffer holds exactly the min(n, buffer_size_limit) entries stored last.
HoldsMostRecentEntries ==
    (/\ bufLog.op = "import" /\ auto_prune_enabled
     /\ bufLog.monotone /\ ~bufLog.agePruned) =>
        {buffer.entries[i][2] : i \in DOMAIN buffer.entries} =
            (bufLog.stored - Min(bufLog.stored, buffer_size_limit) + 1)..bufLog.stored

\* C26: immediately after a default import_state with auto-prune enabled and
\* clock readings that never decreased, every entry of the buffer has a
\* timestamp >= now() - max_age_ns, now() being the last clock reading.
NoEntryBeyondMaxAge ==
    (bufLog.op = "import" /\ auto_prune_enabled /\ bufLog.monotone) =>
        \A i \in DOMAIN buffer.entries :
            buffer.entries[i][1] >= bufLog.read - max_age_ns

\* ------------------------------------------------ calls on a Buffer alone
\* Buffer.store(timestamp, states) with any timestamp.
BufferStoreCall ==
    /\ buffer.made
    /\ bufLog.stored < MaxStored
    /\ \E timestamp \in Stamps :
         /\ buffer' = [buffer EXCEPT
                          !.entries = BufferStore(@, timestamp, bufLog.stored + 1)]
         /\ bufLog' = [bufLog EXCEPT
                          !.op = "store", !.stored = @ + 1, !.read = timestamp,
                          !.before = <<>>, !.removed = 0,
                          !.disorder = @ \/ \E i \in DOMAIN buffer.entries :
                                              timestamp < buffer.entries[i][1]]
    /\ UNCHANGED <<buffer_size_limit, auto_prune_enabled, max_age_ns>>
    /\ UNCHANGED bufFrame

\* Buffer.prune_before(timestamp) with any timestamp.
PruneBeforeCall ==
    /\ buffer.made
    /\ \E timestamp \in Stamps :
         /\ buffer' = [buffer EXCEPT !.entries = PruneBefore(@, timestamp)]
         /\ bufLog' = [bufLog EXCEPT !.op = "prune", !.read = timestamp,
                                     !.before = buffer.entries,
                                     !.removed = PruneBeforeCount(buffer.entries, timestamp)]
    /\ UNCHANGED <<buffer_size_limit, auto_prune_enabled, max_age_ns>>
    /\ UNCHANGED bufFrame

\* Buffer.clear()
BufferClearCall ==
    /\ buffer.made
    /\ buffer' = [buffer EXCEPT !.entries = BufferClear(@)]
    /\ bufLog' = [bufLog EXCEPT !.op = "clear", !.before = <<>>, !.removed = 0]
    /\ UNCHANGED <<buffer_size_limit, auto_prune_enabled, max_age_ns>>
    /\ UNCHANGED bufFrame

\* A Buffer as its constructor leaves it: no entries.
InitBuffer ==
    /\ InitProcs
    /\ \A p \in Procs : interval_ns[p] = 1
    /\ process_heap = <<>>
    /\ now = 0
    /\ members = {}
    /\ appendOrder = <<>>
    /\ tick = NoTick
    /\ handed = NoHandOver
    /\ RunnerIdle
    /\ PipelineIdle
    /\ StateIdle
    /\ WallIdle
    /\ buffer = [made |-> TRUE, entries |-> <<>>]
    /\ buffer_size_limit = 1
    /\ auto_prune_enabled = TRUE
    /\ max_age_ns = 0
    /\ bufLog = NoBufLog
    /\ ClockIdle
    /\ FixedIdle
    /\ ConstructIdle
    /\ AssemblyIdle

NextBuffer ==
    \/ BufferStoreCall
    \/ PruneBeforeCall
    \/ BufferClearCall

SpecBuffer == InitBuffer /\ [][NextBuffer]_vars

\* C27: after any sequence of store, prune_before and clear the entries of a
\* Buffer are in non-decreasing order of timestamp; get_oldest and
\* get_latest return entries with the minimum and the maximum timestamp, and
\* None when the buffer is empty.
EntriesInTimestampOrder ==
    LET entries == buffer.entries
    IN  /\ \A i, j \in DOMAIN entries : i < j => entries[i][1] <= entries[j][1]
        /\ entries = <<>> => GetOldest(entries).none /\ GetLatest(entries).none
        /\ entries # <<>> =>
              /\ ~GetOldest(entries).none /\ ~GetLatest(entries).none
              /\ GetOldest(entries).entry \in Range(entries)
              /\ GetLatest(entries).entry \in Range(entries)
              /\ \A i \in DOMAIN entries :
                    /\ GetOldest(entries).entry[1] <= entries[i][1]
                    /\ entries[i][1] <= GetLatest(entries).entry[1]

\* Entries were stored out of order and with a duplicate timestamp, and some
\* were pruned since.
StoredOutOfOrder ==
    /\ bufLog.disorder
    /\ Len(buffer.entries) >= 3
    /\ Len(buffer.entries) < bufLog.stored
    /\ \E i, j \in DOMAIN buffer.entries :
          i # j /\ buffer.entries[i][1] = buffer.entries[j][1]
    /\ \E i, j \in DOMAIN buffer.entries :
          i < j /\ buffer.entries[i][2] > buffer.entries[j][2]

\* ---------------------------------- States built from the empty State
\* The empty State; with_device, with_devices with any keys and
\* without_device are called on it and on the States they return.
InitStateOps ==
    /\ InitProcs
    /\ \A p \in Procs : interval_ns[p] = 1
    /\ process_heap = <<>>
    /\ now = 0
    /\ members = {}
    /\ appendOrder = <<>>
    /\ tick = NoTick
    /\ handed = NoHandOver
    /\ RunnerIdle
    /\ PipelineIdle
    /\ StateIdle
    /\ WallIdle
    /\ BufferIdle
    /\ ClockIdle
    /\ FixedIdle
    /\ ConstructIdle
    /\ AssemblyIdle

NextStateOps ==
    \/ CallWithDeviceUnder(ShortStacks)
    \/ CallWithDevicesUnder(ShortStacks, KeyedDicts)
    \/ CallWithoutDevice
    \/ ContinueWithReturned
    \/ ContinueWithOriginal

SpecStateOps == InitStateOps /\ [][NextStateOps]_vars

\* C28: a permitted s.with_device(d) returns a State that has d under
\* d.name and every other device as s has it; with_device, with_devices and
\* without_device leave the devices of the State they are called on as they
\* were.
CallsLeaveStateUnaltered ==
    call.ran =>
        /\ devices = call.before
        /\ (call.op = "with_device" /\ ~call.raised) =>
              LET d == call.args[1]
              IN  /\ call.ret[d.name] = d
                  /\ \A n \in DeviceNames \ {d.name} : call.ret[n] = call.before[n]

\* with_device has replaced a device of a State that holds two devices.
DeviceReplaced ==
    /\ call.ran /\ call.op = "with_device" /\ ~call.raised
    /\ \A n \in DeviceNames : call.before[n] # Absent
    /\ call.before[call.args[1].name] # call.args[1]
    /\ call.ret # call.before

\* C29: in every State built from the empty State by with_device,
\* with_devices and without_device, each key of the device map is the name
\* of the Device stored under it.
KeysAreDeviceNames ==
    /\ \A k \in DeviceNames : devices[k] # Absent => devices[k].name = k
    /\ (call.ran /\ ~call.raised) =>
          \A k \in DeviceNames : call.ret[k] # Absent => call.ret[k].name = k

\* C30: when a run begins, initialize() on the System leaves the System and
\* every child that was appended to it and not removed with execution_count
\* = 0 and start_time = the clock reading of the initialization, whatever
\* the run before left behind.
InitializeResetsWholeTree ==
    [][(run_pc # "running" /\ run_pc' = "running") =>
          \A p \in members \cup {SystemId} :
              /\ execution_count'[p] = 0
              /\ start_time'[p] = now'
    ]_vars

\* C31: the runner is registered as the current clock of the thread that
\* initializes its tree when the tree is initialized, so that start_time is
\* read from the runner's clock, and of the ticking thread during every tick.
RunnerClockBeforeInitialize ==
    /\ initFrom \in {"none", "runner"}
    /\ \A w \in Workers : workers[w].pc = "ticking" => GetCurrent(time_source, w) = "runner"

\* -------------------------------------------------- FixedSpeedController
\* States(states): a copy of the dict.
StatesCopy(bundle) == [r \in RoleNames |-> bundle[r]]

\* FixedSpeedController._think(): nothing when one of the two bundles is
\* falsy; otherwise, for each setting, desired (created when missing) gets
\* the Actuator through with_device, which the permission check allows or
\* answers with PermissionError.
FixedThink(actual_states, desired_states, settings) ==
    LET named == {n \in DeviceNames : settings[n].configured}
        before == IF desired_states["desired"].present
                  THEN desired_states["desired"].devices ELSE NoDevs
    IN  IF ~Truthy(actual_states) \/ ~Truthy(desired_states)
        THEN [states |-> desired_states, raised |-> FALSE]
        ELSE IF named = {}
        THEN [states |-> desired_states, raised |-> FALSE]
        ELSE IF ~CanProcessModifyDevice("FixedSpeedController", "Actuator")
        THEN [states |-> desired_states, raised |-> TRUE]
        ELSE [states |-> [desired_states EXCEPT !["desired"] =
                            Role([n \in DeviceNames |->
                                    IF n \in named
                                    THEN Dev(n, "Actuator", settings[n].value)
                                    ELSE before[n]])],
              raised |-> FALSE]

\* FixedSpeedController._export_state()
FixedExportState(desired_states) ==
    IF Truthy(desired_states) THEN StatesCopy(desired_states) ELSE EmptyBundle

\* One tick of the controller, the three methods in turn: _import_state
\* keeps two copies of the input, _think works on the second, _export_state
\* returns a copy of it. The record holds the input as it is after the call.
FixedExecute(input, settings) ==
    LET actual_states == StatesCopy(input)
        desired_states == StatesCopy(input)
        thought == FixedThink(actual_states, desired_states, settings)
    IN  [after |-> input,
         raised |-> thought.raised,
         output |-> IF thought.raised THEN EmptyBundle
                    ELSE FixedExportState(thought.states)]

fixFrame == <<sysVars, runVars, pipeVars, stateVars, wallVars, clkVars, conVars, asmVars>>

\* controller.execute(input) with any bundle. _import_state first stores the
\* input in the Buffer of the StatefulProcess.
FixedExecuteCall ==
    /\ bufLog.stored < MaxStored
    /\ \E input \in FixedBundles :
         LET res == FixedExecute(input, actuator_settings)
         IN  fixed' = [ran |-> TRUE, input |-> input, after |-> res.after,
                       output |-> res.output, raised |-> res.raised]
    /\ buffer' = ImportState(buffer, auto_prune_enabled, buffer_size_limit,
                             max_age_ns, now, now, bufLog.stored + 1)
    /\ bufLog' = [bufLog EXCEPT !.op = "import", !.stored = @ + 1, !.read = now]
    /\ UNCHANGED <<actuator_settings, buffer_size_limit, auto_prune_enabled, max_age_ns>>
    /\ UNCHANGED fixFrame

\* The controller is configured with any actuator_settings.
InitFixed ==
    /\ InitProcs
    /\ \A p \in Procs : interval_ns[p] = 1
    /\ process_heap = <<>>
    /\ now = 0
    /\ members = {}
    /\ appendOrder = <<>>
    /\ tick = NoTick
    /\ handed = NoHandOver
    /\ RunnerIdle
    /\ PipelineIdle
    /\ StateIdle
    /\ WallIdle
    /\ BufferIdle
    /\ ClockIdle
    /\ actuator_settings \in Settings
    /\ fixed = NoFixedCall
    /\ ConstructIdle
    /\ AssemblyIdle

NextFixed == FixedExecuteCall

SpecFixed == InitFixed /\ [][NextFixed]_vars

\* C32: for every input bundle the output of the controller's tick has in
\* desired an Actuator for each configured name with the configured value
\* and every other role as in the input, and the input is as it was.
FixedWritesConfiguredActuators ==
    fixed.ran =>
        /\ ~fixed.raised
        /\ \A n \in DeviceNames :
              actuator_settings[n].configured =>
                  /\ fixed.output["desired"].present
                  /\ fixed.output["desired"].devices[n] =
                        Dev(n, "Actuator", actuator_settings[n].value)
        /\ \A r \in RoleNames \ {"desired"} : fixed.output[r] = fixed.input[r]
        /\ fixed.after = fixed.input

\* ------------------------------------------- construction of processes
\* The arguments that constructors are called with.
ProcessNames == {"", "a", "b"}
IntervalArgs == (0 - 1)..MaxInterval

\* The validation of the fields of a Process at construction: name has
\* min_length 1 (Entity); interval_ns is any int.
ProcessAccepts(name, ivl) == Len(name) >= 1

conFrame == <<sysVars, runVars, pipeVars, stateVars, wallVars, bufVars, clkVars, fixVars,
              asmVars>>

\* Process(name=..., interval_ns=...) is called; pydantic raises
\* ValidationError when the fields are not accepted.
ProcessConstruct ==
    /\ Len(constructed) < MaxBuilt
    /\ \E name \in ProcessNames, ivl \in IntervalArgs :
         /\ attempt' = [made |-> TRUE, name |-> name, interval_ns |-> ivl,
                        accepted |-> ProcessAccepts(name, ivl)]
         /\ constructed' = IF ProcessAccepts(name, ivl)
                           THEN Append(constructed, [name |-> name, interval_ns |-> ivl])
                           ELSE constructed
    /\ UNCHANGED conFrame

InitConstruct ==
    /\ InitProcs
    /\ \A p \in Procs : interval_ns[p] = 1
    /\ process_heap = <<>>
    /\ now = 0
    /\ members = {}
    /\ appendOrder = <<>>
    /\ tick = NoTick
    /\ handed = NoHandOver
    /\ RunnerIdle
    /\ PipelineIdle
    /\ StateIdle
    /\ WallIdle
    /\ BufferIdle
    /\ ClockIdle
    /\ FixedIdle
    /\ ConstructIdle
    /\ AssemblyIdle

NextConstruct == ProcessConstruct

SpecConstruct == InitConstruct /\ [][NextConstruct]_vars

\* C33: the construction of a Process with interval_ns <= 0 or with an empty
\* name is rejected, so every process that exists has a positive period and
\* a name.
InvalidProcessRejected ==
    /\ attempt.made =>
          ((attempt.interval_ns <= 0 \/ attempt.name = "") => ~attempt.accepted)
    /\ \A i \in DOMAIN constructed :
          constructed[i].interval_ns > 0 /\ constructed[i].name # ""

\* C34: prune_before(t) removes exactly the entries with timestamp < t,
\* keeps every entry with timestamp >= t in its order, and returns the
\* number of entries removed: 0 when none qualify, count() when all do.
PruneBeforeRemovesOlder ==
    bufLog.op = "prune" =>
        LET t == bufLog.read
            older == {i \in DOMAIN bufLog.before : bufLog.before[i][1] < t}
        IN  /\ buffer.entries = SelectSeq(bufLog.before, LAMBDA e : e[1] >= t)
            /\ bufLog.removed = Cardinality(older)
            /\ older = {} => bufLog.removed = 0 /\ buffer.entries = bufLog.before
            /\ older = DOMAIN bufLog.before =>
                  bufLog.removed = Len(bufLog.before) /\ buffer.entries = <<>>

\* prune_before(t) has removed some entries and kept others, one of them
\* stored under t itself.
PrunedUpToBoundary ==
    /\ bufLog.op = "prune"
    /\ bufLog.removed > 0
    /\ Len(buffer.entries) >= 2
    /\ buffer.entries[1][1] = bufLog.read

\* C35: a tick of the System dispatches no child whose current next-due
\* time is later than now(); a child at the head of the queue that is not
\* due under its current timing is not executed in the tick and is in the
\* queue under its fresh key afterwards.
NeverDispatchedEarly ==
    [][tick'.at >= 0 =>
        /\ \A c \in Range(tick'.dispatched) : tick'.dueTime[c] <= tick'.at
        /\ (process_heap # <<>> /\ NextTime(process_heap[1][2]) > now) =>
              /\ process_heap[1][2] \notin Range(tick'.dispatched)
              /\ \E i \in DOMAIN process_heap' :
                    process_heap'[i] = <<NextTime(process_heap[1][2]), process_heap[1][2]>>
    ]_vars

\* A tick that found stale keys has dispatched one child and left another,
\* not due under its current timing, alone.
StaleHeadLeftAlone ==
    /\ tick.at >= 0 /\ tick.stale
    /\ Len(tick.dispatched) >= 1
    /\ \E c \in members \ Range(tick.dispatched) :
          /\ tick.dueTime[c] > tick.at
          /\ \E i \in DOMAIN process_heap : process_heap[i] = <<NextTime(c), c>>

\* ---------------------------------------------------------------------
\* The thread that runs Pipeline.start() and a caller of stop().
\* pipe_pc = "idle" is the thread launched on start() that has not yet
\* executed the first statement of start().

\* Pipeline.stop() called from the launching thread at any moment after the
\* thread of start() has been launched, before or during the loop.
PipelineStopAnyTime ==
    /\ pipe_pc \in {"idle", "loop"}
    /\ ~stop_requested
    /\ stop_requested' = TRUE
    /\ UNCHANGED <<interval_ns, start_time, execution_count, now, pipeline, states,
                   pipe_pc, okTicks, last>>
    /\ UNCHANGED pipeFrame

\* A pass of the loop of start() after MaxCycles passes: execute(self.states)
\* as before; the counters and the clock are no longer followed.
PipelineCycleOn ==
    /\ pipe_pc = "loop"
    /\ ~stop_requested
    /\ execution_count[PipelineId] = MaxCycles
    /\ \E beh \in BehaviourChoices :
         LET done == Execute(states, beh, TRUE)
         IN  /\ last' = done
             /\ states' = IF done.raised THEN states ELSE done.out
    /\ UNCHANGED <<interval_ns, start_time, execution_count, now, pipeline,
                   stop_requested, pipe_pc, okTicks>>
    /\ UNCHANGED pipeFrame

NextThread ==
    \/ PipelineStart
    \/ PipelineCycle
    \/ PipelineCycleOn
    \/ PipelineStopAnyTime
    \/ PipelineExit

\* The loop of start() is due for a pass: the guard of PipelineCycle.
LoopPassDue ==
    /\ pipe_pc = "loop"
    /\ ~stop_requested
    /\ execution_count[PipelineId] < MaxCycles
    /\ now >= NextTime(PipelineId)

\* A pass of the loop of start() has been counted: among the steps of
\* NextThread these are the steps of PipelineCycle.
LoopPassCounted ==
    /\ LoopPassDue
    /\ execution_count' = [execution_count EXCEPT ![PipelineId] = @ + 1]

\* The loop of start() goes on after MaxCycles passes, in a Pipeline whose
\* children make one pass differ from another: the guard of PipelineCycleOn.
LoopPassOnDue ==
    /\ pipe_pc = "loop"
    /\ ~stop_requested
    /\ execution_count[PipelineId] = MaxCycles
    /\ pipeline.children # <<>>

\* Such a pass has been made: among the steps of NextThread these are the
\* steps of PipelineCycleOn.
LoopPassOnMade ==
    /\ LoopPassOnDue
    /\ last' # last

\* The Pipeline whose start() the thread runs has children.
InitThread ==
    /\ InitPipeline
    /\ pipeline.children # <<>>

\* The thread of start() is scheduled: it begins start(), runs the passes of
\* its loop for as long as they are due, and leaves the loop when it reads
\* stop_requested as set.
SpecThread ==
    /\ InitThread
    /\ [][NextThread]_vars
    /\ WF_vars(PipelineStart)
    /\ WF_vars(PipelineExit)
    /\ ([]<>(~LoopPassDue) \/ []<><<LoopPassCounted>>_vars)
    /\ ([]<>(~LoopPassOnDue) \/ []<><<LoopPassOnMade>>_vars)

\* C36: a stop() request made at any moment after the thread of start() has
\* been launched is never lost: once stop() has set the flag, the loop of
\* start() eventually exits, also when stop() ran before the first
\* statement of start().
StopRequestNeverLost == stop_requested ~> (pipe_pc = "stopped")

\* ---------------------------------------------------------------------
\* A Pipeline whose children have a period of their own, the same for all:
\* the leaves A, B, C carry the timing fields of the processes 1, 2, 3.
InitTiming ==
    /\ InitProcs
    /\ \A c \in Children : interval_ns[c] = interval_ns[LeafProc["A"]]
    /\ process_heap = <<>>
    /\ now = 0
    /\ members = {}
    /\ appendOrder = <<>>
    /\ tick = NoTick
    /\ handed = NoHandOver
    /\ RunnerIdle
    /\ pipeline \in PipelineShapes
    /\ states = NoneWritten
    /\ stop_requested = FALSE
    /\ pipe_pc = "idle"
    /\ okTicks = 0
    /\ last = NoCall
    /\ StateIdle
    /\ WallIdle
    /\ BufferIdle
    /\ ClockIdle
    /\ FixedIdle
    /\ ConstructIdle
    /\ AssemblyIdle

NextTiming ==
    \/ PipelineStart
    \/ PipelineCycle
    \/ PipelineStop
    \/ PipelineExit

SpecTiming == InitTiming /\ [][NextTiming]_vars

\* The processes of a tick up to and including the first one that raised
\* PermissionError, all of them when none did.
RECURSIVE UpToDenied(_, _)
UpToDenied(order, beh) ==
    IF order = <<>> THEN <<>>
    ELSE IF Head(order) \in Leaves /\ beh[Head(order)] = "permission"
         THEN <<Head(order)>>
         ELSE <<Head(order)>> \o UpToDenied(Tail(order), beh)

\* C37 as stated: in every tick of the Pipeline each child is invoked exactly
\* once, in insertion order, whatever the children's own interval_ns and
\* next-due times.
EveryChildOncePerTick ==
    last.ran => last.invoked = LeavesInOrder(pipeline)

\* C37, amended: in every tick of the Pipeline the children are invoked in
\* insertion order, none twice and none left out for its own interval_ns or
\* next-due time, up to the first child that raises PermissionError, which
\* ends the tick; a tick in which no child raises PermissionError invokes
\* each child exactly once.
EveryChildOnceUnlessDenied ==
    last.ran =>
        /\ last.invoked = UpToDenied(LeavesInOrder(pipeline), last.beh)
        /\ ~last.raised => last.invoked = LeavesInOrder(pipeline)

\* A tick of the timing loop at a time that is no multiple of the period of
\* B, with A failing: A, B and C have each been invoked once, in this order.
TickedChildrenOffPeriod ==
    /\ last.ran /\ last.loop
    /\ pipeline = Pipe("P", <<Leaf("A"), Leaf("B"), Leaf("C")>>)
    /\ interval_ns[LeafProc["B"]] = 2
    /\ interval_ns[PipelineId] = 1
    /\ execution_count[PipelineId] = 2
    /\ last.beh["A"] = "error"
    /\ last.invoked = <<"A", "B", "C">>

\* ---------------------------------------------------------------------
\* A Pipeline whose persistent states were assigned before it is used.
PersistedBundles == {NoneWritten, [NoneWritten EXCEPT !["A"] = "full"]}

InitFrame ==
    /\ InitProcs
    /\ \A c \in Children : interval_ns[c] = 1
    /\ process_heap = <<>>
    /\ now = 0
    /\ members = {}
    /\ appendOrder = <<>>
    /\ tick = NoTick
    /\ handed = NoHandOver
    /\ RunnerIdle
    /\ pipeline \in PipelineShapes
    /\ states \in PersistedBundles
    /\ stop_requested = FALSE
    /\ pipe_pc = "idle"
    /\ okTicks = 0
    /\ last = NoCall
    /\ StateIdle
    /\ WallIdle
    /\ BufferIdle
    /\ ClockIdle
    /\ FixedIdle
    /\ ConstructIdle
    /\ AssemblyIdle

SpecFrame == InitFrame /\ [][NextPipeline]_vars

\* C38: execute(input) of a Pipeline leaves the bundle it was given as it
\* was and neither reads nor writes the persistent states of the Pipeline:
\* the children are run on the input, and states changes only in a pass of
\* the loop of start(), which assigns it the result of execute(self.states).
ExecuteLeavesInputAndStates ==
    [][/\ last'.ran => last'.inputAfter = last'.input
       /\ (last'.ran /\ last'.invoked # <<>>) =>
              last'.received[Head(last'.invoked)] = last'.input
       /\ (last'.ran /\ ~last'.loop) => states' = states
       /\ states' # states =>
              /\ pipe_pc = "loop" /\ last'.loop
              /\ last'.input = states /\ states' = last'.out
    ]_vars

\* A Pipeline that holds persistent states was called with another bundle:
\* its children ran on that bundle and states is what it was.
ExecutedBesidePersistentStates ==
    /\ last.ran /\ ~last.loop
    /\ pipe_pc = "idle"
    /\ states # NoneWritten
    /\ last.input # states
    /\ last.invoked = <<"A", "B", "C">>
    /\ last.out # last.input
    /\ last.out # states

\* ---------------------------------------------------------------------
\* Pipeline.set_environment and Pipeline.add_controller.
MaxCalls == 4

\* The processes handed to the two methods.
Environments == {[name |-> "env1", cls |-> "Environment"],
                 [name |-> "env2", cls |-> "Environment"]}
Controllers == {[name |-> "ctrl1", cls |-> "Controller"],
                [name |-> "ctrl2", cls |-> "FixedSpeedController"]}

\* A variant of set_environment that keeps the Environment already there.
SetEnvironmentKeepingOld(children, environment) == <<environment>> \o children

\* set_environment: the children that are no Environment, with the new
\* Environment inserted at index 0.
SetEnvironment(children, environment) ==
    <<environment>> \o SelectSeq(children, LAMBDA child : ~IsInstance(child.cls, "Environment"))

\* add_controller: self.children.append(controller).
AddController(children, controller) == Append(children, controller)

asmFrame == <<sysVars, runVars, pipeVars, stateVars, wallVars, bufVars, clkVars, fixVars,
              conVars>>

SetEnvironmentCall ==
    /\ Len(assembled) < MaxCalls
    /\ \E environment \in Environments :
         /\ pipe_children' = SetEnvironment(pipe_children, environment)
         /\ assembled' = Append(assembled, environment)
    /\ UNCHANGED asmFrame

AddControllerCall ==
    /\ Len(assembled) < MaxCalls
    /\ \E controller \in Controllers :
         /\ pipe_children' = AddController(pipe_children, controller)
         /\ assembled' = Append(assembled, controller)
    /\ UNCHANGED asmFrame

InitAssembly ==
    /\ InitProcs
    /\ \A p \in Procs : interval_ns[p] = 1
    /\ process_heap = <<>>
    /\ now = 0
    /\ members = {}
    /\ appendOrder = <<>>
    /\ tick = NoTick
    /\ handed = NoHandOver
    /\ RunnerIdle
    /\ PipelineIdle
    /\ StateIdle
    /\ WallIdle
    /\ BufferIdle
    /\ ClockIdle
    /\ FixedIdle
    /\ ConstructIdle
    /\ AssemblyIdle

NextAssembly ==
    \/ SetEnvironmentCall
    \/ AddControllerCall

SpecAssembly == InitAssembly /\ [][NextAssembly]_vars

\* C39: once set_environment has been called, the children of the Pipeline
\* are one Environment, the one set last, at index 0, followed by all the
\* Controllers added, in the order in which they were added.
EnvironmentFirstThenControllers ==
    LET isEnv(p) == IsInstance(p.cls, "Environment")
        envs == SelectSeq(assembled, isEnv)
        ctrls == SelectSeq(assembled, LAMBDA p : ~isEnv(p))
    IN  envs # <<>> => pipe_children = <<envs[Len(envs)]>> \o ctrls

\* A Controller was added, then an Environment set, then the Environment
\* replaced and another Controller added.
EnvironmentReplacedAmongControllers ==
    /\ Len(assembled) = 4
    /\ assembled[1].cls = "Controller"
    /\ assembled[2].name = "env1"
    /\ assembled[3].name = "env2"
    /\ assembled[4].cls = "FixedSpeedController"
    /\ Len(pipe_children) = 3

\* C40: the default import_state of a StatefulProcess changes only the
\* Buffer: execution_count, start_time and stop_requested are after the call
\* what they were before it, also in the first call, on a process whose
\* Buffer has not been allocated.
ImportStateChangesOnlyBuffer ==
    [][bufLog'.op = "import" /\ bufLog'.stored # bufLog.stored =>
          /\ start_time' = start_time
          /\ execution_count' = execution_count
          /\ stop_requested' = stop_requested
    ]_vars

====
